---- MODULE Spec2Model ----
(***************************************************************************)
(* Herbapedia content pipeline: the schema verifier (verify-content.js),   *)
(* the scraper with cross-language matching (scraper v6) and the           *)
(* per-language scraper (scrape-herbapedia.js, v3), over one content store.*)
(*                                                                         *)
(* Strings the code transforms (titles, scientific names, file names,      *)
(* slugs, field values) are sequences of one-character strings, so that    *)
(* lower-casing, trimming, substring search and slug derivation are        *)
(* computed as the code computes them.  Identifiers the code only compares *)
(* (language codes, YAML keys, issue types) are TLA+ strings.              *)
(***************************************************************************)
EXTENDS Integers, Sequences, FiniteSets, TLC

VARIABLES
  store,          \* CONTENT_DIR: entry name -> [isDir, files, images, content]
  rootFiles,      \* report files written into ROOT_DIR: file name -> content
  pc,             \* position of the running script
  args,           \* process.argv flags of the running script
  clock,          \* what new Date() returns next
  results,        \* verifier: the results object of verifyAllContent
  prevResults,    \* verifier: the results object of the previous run
  runs,           \* verifier: number of runs started on this store
  stdout,         \* verifier: the coverage lines last printed
  slugToData,     \* scraper v6: Map slug -> page data, in insertion order
  sciNameToSlug,  \* scraper v6: Map normalized scientific name -> slug
  matched,        \* scraper v6: scrapeChinese's matched counter
  unmatched,      \* scraper v6: scrapeChinese's unmatched counter
  idx,            \* scrapers: number of item URLs already visited
  titled,         \* scrapers: pages of the current pass that were fetched and have a title
  log,            \* scrapers: what the last item step logged
  queue,          \* scrapers: the languages whose pass is still to end
  crawl,          \* scrapers: the state of the listing crawl and of the request pacing
  repair,         \* repair script: its counters and what fixHerbEntry last did
  calc            \* a function of the scripts called on its own: argument and results

vars == <<store, rootFiles, pc, args, clock, results, prevResults, runs, stdout,
          slugToData, sciNameToSlug, matched, unmatched, idx, titled, log, queue,
          crawl, repair, calc>>

verifierVars == <<rootFiles, args, results, prevResults, runs, stdout>>
scraperVars == <<slugToData, sciNameToSlug, matched, unmatched, idx, titled, log, queue,
                 crawl, repair, calc>>

(***************************************************************************)
(* Strings                                                                 *)
(***************************************************************************)

\* "#" stands for any character outside ASCII (a CJK character).
UpperLetters ==
  <<"A", "B", "C", "D", "E", "F", "G", "H", "I", "J", "K", "L", "M",
    "N", "O", "P", "Q", "R", "S", "T", "U", "V", "W", "X", "Y", "Z">>
LowerLetters ==
  <<"a", "b", "c", "d", "e", "f", "g", "h", "i", "j", "k", "l", "m",
    "n", "o", "p", "q", "r", "s", "t", "u", "v", "w", "x", "y", "z">>

LowerOf(c) ==
  IF \E i \in 1..26 : UpperLetters[i] = c
  THEN LowerLetters[CHOOSE i \in 1..26 : UpperLetters[i] = c]
  ELSE c

IsLowerLetter(c) == \E i \in 1..26 : LowerLetters[i] = c
IsDigit(c) == c \in {"0", "1", "2", "3", "4", "5", "6", "7", "8", "9"}
IsSpace(c) == c \in {" ", "\n", "\t"}

\* String.prototype.toLowerCase
ToLower(s) == [i \in 1..Len(s) |-> LowerOf(s[i])]

RECURSIVE TrimLeft(_)
TrimLeft(s) == IF s # <<>> /\ IsSpace(Head(s)) THEN TrimLeft(Tail(s)) ELSE s

RECURSIVE TrimRight(_)
TrimRight(s) ==
  IF s # <<>> /\ IsSpace(s[Len(s)]) THEN TrimRight(SubSeq(s, 1, Len(s) - 1)) ELSE s

\* String.prototype.trim
Trim(s) == TrimRight(TrimLeft(s))

\* String.prototype.includes
Includes(s, t) == \E i \in 1..(Len(s) - Len(t) + 1) : SubSeq(s, i, i + Len(t) - 1) = t

\* String.prototype.startsWith
StartsWith(s, t) == Len(t) <= Len(s) /\ SubSeq(s, 1, Len(t)) = t

\* replace(/\s+/g, ' '): every run of white space becomes one space
RECURSIVE CollapseSpaces(_)
CollapseSpaces(s) ==
  IF s = <<>> THEN <<>>
  ELSE IF IsSpace(Head(s))
       THEN <<" ">> \o CollapseSpaces(TrimLeft(s))
       ELSE <<Head(s)>> \o CollapseSpaces(Tail(s))

\* replace(/-+/g, '-'): every run of hyphens becomes one hyphen
RECURSIVE CollapseHyphens(_)
CollapseHyphens(s) ==
  IF s = <<>> THEN <<>>
  ELSE IF Head(s) = "-" /\ Len(s) > 1 /\ s[2] = "-"
       THEN CollapseHyphens(Tail(s))
       ELSE <<Head(s)>> \o CollapseHyphens(Tail(s))

\* replace(/^-|-$/g, ''): one leading and one trailing hyphen are removed
TrimHyphens(s) ==
  LET a == IF s # <<>> /\ Head(s) = "-" THEN Tail(s) ELSE s
  IN  IF a # <<>> /\ a[Len(a)] = "-" THEN SubSeq(a, 1, Len(a) - 1) ELSE a

EmptyMap == [k \in {} |-> 0]

Str(s) == [t |-> "str", s |-> s]

\* A YAML scalar that is not a string (a number, a list): truthy, typeof # 'string'
NonString == [t |-> "other", s |-> <<"1">>]

NoSlug == <<>>

\* What the scraper last logged for an item page: nothing yet, "failed" (the fetch
\* returned null), "skipped", "saved", "matched" or "unmatched", with the parsed page
NoUrl == [lang |-> "", path |-> "", last |-> <<>>]
NoImage == [present |-> FALSE, valid |-> FALSE, file |-> <<>>, served |-> FALSE]
NoData == [url |-> NoUrl, title |-> <<>>, scientificName |-> <<>>, imageUrl |-> NoImage,
           slug |-> NoSlug, category |-> "", sections |-> EmptyMap]
NoLog == [kind |-> "none", lang |-> "", data |-> NoData, slug |-> NoSlug, method |-> ""]
Logged(kind, lang, data, slug, method) ==
  [kind |-> kind, lang |-> lang, data |-> data, slug |-> slug, method |-> method]

Text == <<"t", "x">>
Blank == <<" ">>

(***************************************************************************)
(* The content store                                                       *)
(***************************************************************************)

REQUIRED_LANGUAGES == <<"en", "zh-HK", "zh-CN">>

BASELINE_LANGUAGE == "en"

\* Seeded fault: the secondary fields are compared too
CONTENT_FIELDS_WithSecondary ==
  <<"history", "introduction", "traditional_usage", "modern_usage", "functions",
    "botanical_source", "modern_research", "importance", "food_sources", "precautions",
    "dosage">>

CONTENT_FIELDS ==
  <<"history", "introduction", "traditional_usage", "modern_usage", "functions">>

Langs == {REQUIRED_LANGUAGES[i] : i \in 1..Len(REQUIRED_LANGUAGES)}

IndexName == <<"i", "n", "d", "e", "x", ".", "y", "a", "m", "l">>
HiddenName == <<".", "x">>

\* A file that yaml.load turns into a mapping, and one it cannot load
Yaml(data) == [ok |-> TRUE, data |-> data]
Corrupt == [ok |-> FALSE, data |-> EmptyMap]

\* An entry of CONTENT_DIR: an entity directory with its language files and the
\* names of the files in its images/ subdirectory, or a plain file with its content
NoContent == [total |-> 0, categories |-> EmptyMap]
HerbDir(files) == [isDir |-> TRUE, files |-> files, images |-> {}, content |-> NoContent]
PlainFile == [isDir |-> FALSE, files |-> EmptyMap, images |-> {}, content |-> NoContent]

\* fs.existsSync(path.join(CONTENT_DIR, slug, `${lang}.yaml`))
existsSync(st, slug, lang) ==
  slug \in DOMAIN st /\ st[slug].isDir /\ lang \in DOMAIN st[slug].files

\* parseYaml: the loaded mapping, or null (here: ok = FALSE) when loading throws
parseYaml(st, slug, lang) == st[slug].files[lang]

RECURSIVE SetToSeq(_)
SetToSeq(S) ==
  IF S = {} THEN <<>>
  ELSE LET x == CHOOSE x \in S : TRUE IN <<x>> \o SetToSeq(S \ {x})

\* fs.readdirSync(CONTENT_DIR, {withFileTypes: true}) with the verifier's filters
herbDirectories(st) ==
  SetToSeq({n \in DOMAIN st : st[n].isDir /\ n # IndexName /\ ~StartsWith(n, <<".">>)})

(***************************************************************************)
(* The schema verifier (verify-content.js)                                 *)
(***************************************************************************)

InSeq(x, s) == \E i \in 1..Len(s) : s[i] = x

\* Seeded fault: the trim test is dropped
fieldIsPresent_NoTrim(data, field) ==
  /\ field \in DOMAIN data
  /\ data[field].t = "str"
  /\ data[field].s # <<>>

\* data[field] && typeof data[field] === 'string' && data[field].trim() !== ''
fieldIsPresent(data, field) ==
  /\ field \in DOMAIN data
  /\ data[field].t = "str"
  /\ data[field].s # <<>>
  /\ Trim(data[field].s) # <<>>

getPresentContentFields(data) ==
  SelectSeq(CONTENT_FIELDS, LAMBDA field : fieldIsPresent(data, field))

\* The fields of the baseline that the language lacks, as missing_field issues
missingFieldIssues(lang, baselineFields, langFields) ==
  LET m == SelectSeq(baselineFields, LAMBDA f : ~InSeq(f, langFields))
  IN  [i \in 1..Len(m) |-> [type |-> "missing_field", language |-> lang, field |-> m[i]]]

\* The fields of the language that the baseline lacks, as extra_field issues
extraFieldIssues(lang, baselineFields, langFields) ==
  LET m == SelectSeq(langFields, LAMBDA f : ~InSeq(f, baselineFields))
  IN  [i \in 1..Len(m) |-> [type |-> "extra_field", language |-> lang, field |-> m[i]]]

\* The loop over REQUIRED_LANGUAGES that compares each language with the baseline
RECURSIVE schemaIssues(_, _)
schemaIssues(languageData, i) ==
  IF i > Len(REQUIRED_LANGUAGES) THEN <<>>
  ELSE LET lang == REQUIRED_LANGUAGES[i]
           here == IF lang = BASELINE_LANGUAGE \/ lang \notin DOMAIN languageData
                   THEN <<>>
                   ELSE missingFieldIssues(lang, languageData[BASELINE_LANGUAGE],
                                           languageData[lang])
                        \o extraFieldIssues(lang, languageData[BASELINE_LANGUAGE],
                                            languageData[lang])
       IN  here \o schemaIssues(languageData, i + 1)

Undefined == [t |-> "undefined", s |-> <<>>]

Get(data, key) == IF key \in DOMAIN data THEN data[key] ELSE Undefined

Truthy(v) == v.t \notin {"undefined"} /\ (v.t = "str" => v.s # <<>>)

\* Seeded fault: a file that fails to parse is pushed to missingLanguages too
missingLanguagesOf_OrUnparsed(st, slug) ==
  SelectSeq(REQUIRED_LANGUAGES,
            LAMBDA l : ~existsSync(st, slug, l) \/ ~parseYaml(st, slug, l).ok)

\* issues.missingLanguages: the languages whose file does not exist
missingLanguagesOf(st, slug) ==
  SelectSeq(REQUIRED_LANGUAGES, LAMBDA l : ~existsSync(st, slug, l))

validateHerbDirectory(st, slug) ==
  LET missingLanguages == missingLanguagesOf(st, slug)
      present == {l \in Langs : existsSync(st, slug, l)}
      parsed == {l \in present : parseYaml(st, slug, l).ok}
      languageData == [l \in parsed |-> getPresentContentFields(parseYaml(st, slug, l).data)]
      languages == [l \in present |->
                      IF l \in parsed
                      THEN [error |-> "", fields |-> languageData[l]]
                      ELSE [error |-> "Failed to parse YAML", fields |-> <<>>]]
      en == IF BASELINE_LANGUAGE \in parsed
            THEN parseYaml(st, slug, BASELINE_LANGUAGE).data ELSE EmptyMap
      issues == IF BASELINE_LANGUAGE \in parsed THEN schemaIssues(languageData, 1) ELSE <<>>
  IN  [slug |-> slug,
       sourceUrl |-> IF Truthy(Get(en, "metadata.source_url"))
                     THEN Get(en, "metadata.source_url") ELSE Get(en, "source_url"),
       englishTitle |-> Get(en, "title"),
       missingLanguages |-> missingLanguages,
       languages |-> languages,
       schemaInconsistencies |-> issues,
       hasIssues |-> \/ missingLanguages # <<>>
                     \/ present # parsed
                     \/ \E i \in 1..Len(issues) : issues[i].type = "missing_field"]

\* results.summary.missingLanguages[lang]++ for each missing language
trackMissingLanguages(counts, validation) ==
  [l \in Langs |-> counts[l] + IF InSeq(l, validation.missingLanguages) THEN 1 ELSE 0]

\* results.summary.schemaInconsistencies += validation.schemaInconsistencies.length
trackInconsistencies(count, validation) == count + Len(validation.schemaInconsistencies)

\* fieldGaps[issue.language][issue.field]++ for each missing_field issue
RECURSIVE trackFieldGaps(_, _, _)
trackFieldGaps(gaps, issues, i) ==
  IF i > Len(issues) THEN gaps
  ELSE LET issue == issues[i]
           old == gaps[issue.language]
           n == IF issue.field \in DOMAIN old THEN old[issue.field] ELSE 0
           next == IF issue.type = "missing_field"
                   THEN [gaps EXCEPT ![issue.language] = (issue.field :> (n + 1)) @@ old]
                   ELSE gaps
       IN  trackFieldGaps(next, issues, i + 1)

\* Seeded fault: every schema inconsistency, extra_field included, makes incomplete
isComplete_AnyIssue(validation) ==
  /\ Len(validation.missingLanguages) = 0
  /\ Len(validation.schemaInconsistencies) = 0

\* hasAllLanguages && hasNoSchemaIssues
isComplete(validation) ==
  /\ Len(validation.missingLanguages) = 0
  /\ Len(SelectSeq(validation.schemaInconsistencies,
                   LAMBDA i : i.type = "missing_field")) = 0

emptyResults(now, total) ==
  [timestamp |-> now,
   totalHerbs |-> total,
   summary |-> [completeHerbs |-> 0,
                incompleteHerbs |-> 0,
                missingLanguages |-> [l \in Langs |-> 0],
                schemaInconsistencies |-> 0,
                fieldGaps |-> [l \in Langs \ {BASELINE_LANGUAGE} |-> EmptyMap]],
   herbs |-> <<>>,
   problematicHerbs |-> <<>>]

\* One iteration of the loop over the herb directories
verifyOne(res, validation) ==
  LET s == res.summary
      complete == isComplete(validation)
  IN  [res EXCEPT
         !.herbs = Append(@, validation),
         !.summary = [completeHerbs |-> s.completeHerbs + IF complete THEN 1 ELSE 0,
                      incompleteHerbs |-> s.incompleteHerbs + IF complete THEN 0 ELSE 1,
                      missingLanguages |-> trackMissingLanguages(s.missingLanguages, validation),
                      schemaInconsistencies |->
                        trackInconsistencies(s.schemaInconsistencies, validation),
                      fieldGaps |->
                        trackFieldGaps(s.fieldGaps, validation.schemaInconsistencies, 1)],
         !.problematicHerbs = IF complete THEN @ ELSE Append(@, validation)]

RECURSIVE verifyLoop(_, _, _, _)
verifyLoop(st, dirs, i, res) ==
  IF i > Len(dirs) THEN res
  ELSE verifyLoop(st, dirs, i + 1, verifyOne(res, validateHerbDirectory(st, dirs[i])))

verifyAllContent(st, now) ==
  LET dirs == herbDirectories(st)
  IN  verifyLoop(st, dirs, 1, emptyResults(now, Len(dirs)))

\* Seeded fault: Math.floor instead of Math.round
percentageOf_Floor(present, total) ==
  IF total = 0 THEN -1 ELSE (100 * present) \div total

\* NaN, which Math.round returns for 0/0
NaN == -1

\* Math.round((present / total) * 100): Math.round(x) is floor(x + 1/2).  The
\* quotient is exact here; the IEEE product differs from it only where
\* 200 * present / total is an odd integer and present / total is inexact
\* (23/40 is the first), which needs more than 9 entries.
percentageOf(present, total) ==
  IF total = 0 THEN NaN ELSE (200 * present + total) \div (2 * total)

\* The language coverage loop of printPrettyReport and generateMarkdownReport
coverageLines(res) ==
  [i \in 1..Len(REQUIRED_LANGUAGES) |->
     LET lang == REQUIRED_LANGUAGES[i]
         missing == res.summary.missingLanguages[lang]
         present == res.totalHerbs - missing
     IN  [language |-> lang, present |-> present, missing |-> missing,
          percentage |-> percentageOf(present, res.totalHerbs)]]

Flags == {"--json", "--report"}

MaxRuns == 2

NoOutput == [kind |-> "none", coverage |-> <<>>, summary |-> emptyResults(0, 0).summary]

VerifyAllContent ==
  /\ pc = "verify"
  /\ results' = verifyAllContent(store, clock)
  /\ clock' = clock + 1
  /\ pc' = "output"
  /\ UNCHANGED <<store, rootFiles, calc, crawl, repair, args, prevResults, runs, stdout>>
  /\ UNCHANGED scraperVars

\* console.log(JSON.stringify(results, null, 2))
OutputJson ==
  /\ pc = "output"
  /\ "--json" \in args
  /\ stdout' = [kind |-> "json", coverage |-> <<>>, summary |-> results.summary]
  /\ pc' = IF "--report" \in args THEN "report" ELSE "exit"
  /\ UNCHANGED <<store, rootFiles, calc, crawl, repair, args, clock, results, prevResults, runs>>
  /\ UNCHANGED scraperVars

PrintPrettyReport ==
  /\ pc = "output"
  /\ "--json" \notin args
  /\ stdout' = [kind |-> "pretty", coverage |-> coverageLines(results),
                summary |-> results.summary]
  /\ pc' = IF "--report" \in args THEN "report" ELSE "exit"
  /\ UNCHANGED <<store, rootFiles, calc, crawl, repair, args, clock, results, prevResults, runs>>
  /\ UNCHANGED scraperVars

ReportMd == <<"C", "O", "N", "T", "E", "N", "T", "_", "R", "E", "P", "O", "R", "T", ".", "m", "d">>
ReportJson == <<"c", "o", "n", "t", "e", "n", "t", "-", "r", "e", "p", "o", "r", "t", ".", "j", "s", "o", "n">>

\* Seeded fault: the report path is built from CONTENT_DIR
GenerateMarkdownReport_IntoStore ==
  /\ pc = "report"
  /\ store' = (ReportMd :> PlainFile) @@ store
  /\ pc' = "jsonreport"
  /\ UNCHANGED <<rootFiles, calc, crawl, repair, args, clock, results, prevResults, runs, stdout>>
  /\ UNCHANGED scraperVars

\* fs.writeFileSync(path.join(ROOT_DIR, 'CONTENT_REPORT.md'), md)
GenerateMarkdownReport ==
  /\ pc = "report"
  /\ rootFiles' = (ReportMd :> [kind |-> "markdown", coverage |-> coverageLines(results),
                                summary |-> results.summary]) @@ rootFiles
  /\ pc' = "jsonreport"
  /\ UNCHANGED <<store, args, clock, results, prevResults, runs, stdout>>
  /\ UNCHANGED scraperVars

\* fs.writeFileSync(path.join(ROOT_DIR, 'content-report.json'), JSON.stringify(results))
GenerateJSONReport ==
  /\ pc = "jsonreport"
  /\ rootFiles' = (ReportJson :> [kind |-> "json", coverage |-> <<>>,
                                  summary |-> results.summary]) @@ rootFiles
  /\ pc' = "exit"
  /\ UNCHANGED <<store, args, clock, results, prevResults, runs, stdout>>
  /\ UNCHANGED scraperVars

\* The script is started again, with the same flags, on the store as it is
RunAgain ==
  /\ pc = "exit"
  /\ runs < MaxRuns
  /\ runs' = runs + 1
  /\ prevResults' = results
  /\ pc' = "verify"
  /\ UNCHANGED <<store, rootFiles, calc, crawl, repair, args, clock, results, stdout>>
  /\ UNCHANGED scraperVars

NextVerify ==
  \/ VerifyAllContent
  \/ OutputJson
  \/ PrintPrettyReport
  \/ GenerateMarkdownReport
  \/ GenerateJSONReport
  \/ RunAgain

(***************************************************************************)
(* Content stores the verifier is run on                                   *)
(***************************************************************************)

Header == ("title" :> Str(<<"C", "a">>)) @@ ("metadata.source_url" :> Str(<<"u">>))

\* The content keys of the documents the stores are built from
DataChoices ==
  { Header,
    ("history" :> Str(Text)) @@ Header,
    ("history" :> Str(Text)) @@ ("functions" :> Str(Text)) @@ Header,
    ("history" :> Str(Text)) @@ ("functions" :> Str(Blank))
       @@ ("introduction" :> NonString) @@ Header,
    ("functions" :> Str(Text)) @@ ("botanical_source" :> Str(Text)) @@ Header,
    ("history" :> Str(Text)) @@ ("functions" :> Str(Text))
       @@ ("botanical_source" :> Str(Text)) @@ Header }

FileChoices == {Corrupt} \cup {Yaml(d) : d \in DataChoices}

\* Every way to have, for each language, no file or one of the files
FilesOver(choices) ==
  UNION {[L -> choices] : L \in SUBSET Langs}

Full == Yaml(("history" :> Str(Text)) @@ ("functions" :> Str(Text)) @@ Header)
Short == Yaml(("history" :> Str(Text)) @@ Header)
Rich == Yaml(("history" :> Str(Text)) @@ ("functions" :> Str(Text))
             @@ ("botanical_source" :> Str(Text)) @@ Header)

\* The second entry of a store: a few whole directories
SecondChoices ==
  { ("en" :> Full) @@ ("zh-HK" :> Full) @@ ("zh-CN" :> Full),
    ("en" :> Full) @@ ("zh-HK" :> Short),
    ("en" :> Short) @@ ("zh-HK" :> Corrupt) @@ ("zh-CN" :> Rich) }

HerbLetters == <<"a", "b", "c", "g", "h", "p", "v", "x", "y", "z">>
HerbSlug(i) == <<"h", HerbLetters[i]>>

\* index.yaml and a hidden directory, which the verifier skips
OtherEntries == (IndexName :> PlainFile) @@ (HiddenName :> HerbDir(EmptyMap))

\* No listing crawl and no repair has started.
NoCrawl == <<>>

NoRepair == <<>>

NoCall == <<>>

InitIdle ==
  /\ rootFiles = EmptyMap
  /\ clock = 1
  /\ results = emptyResults(0, 0)
  /\ prevResults = emptyResults(0, 0)
  /\ runs = 1
  /\ stdout = NoOutput
  /\ slugToData = <<>>
  /\ sciNameToSlug = EmptyMap
  /\ matched = 0
  /\ unmatched = 0
  /\ idx = 0
  /\ titled = 0
  /\ log = NoLog
  /\ queue = <<>>
  /\ crawl = NoCrawl
  /\ repair = NoRepair
  /\ calc = NoCall

InitVerify ==
  /\ \E first \in FilesOver(FileChoices) :
       \E second \in SecondChoices \cup {EmptyMap} :
         store = IF second = EmptyMap
                 THEN (HerbSlug(1) :> HerbDir(first)) @@ OtherEntries
                 ELSE (HerbSlug(1) :> HerbDir(first)) @@ (HerbSlug(2) :> HerbDir(second))
                      @@ OtherEntries
  /\ \E a \in SUBSET Flags : args = a
  /\ pc = "verify"
  /\ InitIdle

SpecVerify == InitVerify /\ [][NextVerify]_vars

\* Stores of up to MaxHerbs entries for the language coverage: each entry is
\* complete, lacks its zh-CN file, has a zh-CN file without the functions field,
\* or has a zh-CN file that does not parse.  Entries are treated alike by the
\* verifier, so only the number of entries of each kind is varied.
MaxHerbs == 8

CoverageChoices ==
  << ("en" :> Full) @@ ("zh-HK" :> Full) @@ ("zh-CN" :> Full),
     ("en" :> Full) @@ ("zh-HK" :> Full),
     ("en" :> Full) @@ ("zh-HK" :> Full) @@ ("zh-CN" :> Short),
     ("en" :> Full) @@ ("zh-HK" :> Full) @@ ("zh-CN" :> Corrupt) >>

InitCoverage ==
  /\ \E n \in 1..MaxHerbs : \E a, b, c \in 0..n :
       /\ a + b + c <= n
       /\ store = [name \in {HerbSlug(i) : i \in 1..n} |->
                     LET i == CHOOSE i \in 1..n : HerbSlug(i) = name
                     IN  HerbDir(CoverageChoices[IF i <= a THEN 1
                                                 ELSE IF i <= a + b THEN 2
                                                 ELSE IF i <= a + b + c THEN 3 ELSE 4])]
  /\ \E f \in SUBSET Flags : args = f
  /\ pc = "verify"
  /\ InitIdle

SpecCoverage == InitCoverage /\ [][NextVerify]_vars

(***************************************************************************)
(* Properties of the verifier                                              *)
(***************************************************************************)

\* The herb directories of the store, and whether a run has produced results
Herbs == {n \in DOMAIN store : store[n].isDir /\ n # IndexName /\ Head(n) # "."}
Verified == pc \in {"output", "report", "jsonreport", "exit"}

\* The validation the results hold for a slug
ValidationOf(slug) ==
  results.herbs[CHOOSE i \in 1..Len(results.herbs) : results.herbs[i].slug = slug]

FileExists(slug, lang) == lang \in DOMAIN store[slug].files
FileParses(slug, lang) == FileExists(slug, lang) /\ store[slug].files[lang].ok

\* Section 3 of the data model: present iff the value is a non-empty trimmed string
PresentInStore(slug, lang, field) ==
  /\ FileParses(slug, lang)
  /\ field \in DOMAIN store[slug].files[lang].data
  /\ LET v == store[slug].files[lang].data[field]
     IN  v.t = "str" /\ \E i \in 1..Len(v.s) : v.s[i] \notin {" ", "\n", "\t"}

MainFields == {"history", "introduction", "traditional_usage", "modern_usage", "functions"}
SecondaryFields ==
  {"botanical_source", "modern_research", "importance", "food_sources", "precautions", "dosage"}
OtherLangs == {"zh-HK", "zh-CN"}

IssueCount(v, type, lang, field) ==
  Cardinality({k \in 1..Len(v.schemaInconsistencies) :
                 v.schemaInconsistencies[k] =
                   [type |-> type, language |-> lang, field |-> field]})

MissingFieldCount(v) ==
  Cardinality({k \in 1..Len(v.schemaInconsistencies) :
                 v.schemaInconsistencies[k].type = "missing_field"})

IsProblematic(slug) ==
  \E i \in 1..Len(results.problematicHerbs) : results.problematicHerbs[i].slug = slug

\* C2: for every entity and every non-baseline language whose file and the en file
\* both parse, each of the five content fields present in en and not present in the
\* language has exactly one missing_field issue, and no two issues of an entity have
\* the same type, language and field.
C2_OneMissingFieldIssuePerGap ==
  Verified =>
    \A slug \in Herbs :
      LET v == ValidationOf(slug)
      IN  /\ \A lang \in OtherLangs : \A f \in MainFields :
                ( /\ FileParses(slug, "en") /\ FileParses(slug, lang)
                  /\ PresentInStore(slug, "en", f)
                  /\ ~PresentInStore(slug, lang, f) )
                => IssueCount(v, "missing_field", lang, f) = 1
          /\ \A j, k \in 1..Len(v.schemaInconsistencies) :
                j # k => v.schemaInconsistencies[j] # v.schemaInconsistencies[k]

\* C2 witness: a verified store where zh-HK holds a blank functions value that en has
C2_Witness ==
  /\ Verified
  /\ \E slug \in Herbs :
       /\ PresentInStore(slug, "en", "functions")
       /\ FileParses(slug, "zh-HK")
       /\ "functions" \in DOMAIN store[slug].files["zh-HK"].data
       /\ ~PresentInStore(slug, "zh-HK", "functions")
       /\ IssueCount(ValidationOf(slug), "missing_field", "zh-HK", "functions") = 1

\* C3: an entity is counted complete iff none of its three language files is missing
\* and it has no missing_field issue; extra_field issues do not matter.
C3_CompleteIffAllFilesAndNoMissingField ==
  Verified =>
    /\ \A slug \in Herbs :
         IsProblematic(slug) <=>
           ~( /\ \A lang \in Langs : FileExists(slug, lang)
              /\ MissingFieldCount(ValidationOf(slug)) = 0 )
    /\ results.summary.completeHerbs =
         Cardinality({slug \in Herbs : ~IsProblematic(slug)})
    /\ results.summary.incompleteHerbs =
         Cardinality({slug \in Herbs : IsProblematic(slug)})
    /\ Len(results.problematicHerbs) = results.summary.incompleteHerbs

\* C3 witness: an entity with an extra_field issue that is counted complete
C3_Witness ==
  /\ Verified
  /\ \E slug \in Herbs :
       /\ ~IsProblematic(slug)
       /\ \E k \in 1..Len(ValidationOf(slug).schemaInconsistencies) :
            ValidationOf(slug).schemaInconsistencies[k].type = "extra_field"
  /\ results.summary.completeHerbs >= 1

\* C4 as claimed: the baseline is the authority for the secondary fields too: a
\* secondary field present in en and absent in zh-HK or zh-CN is reported as a
\* missing_field issue and makes the entity incomplete.
C4_SecondaryFieldsAreChecked ==
  Verified =>
    \A slug \in Herbs : \A lang \in OtherLangs : \A f \in SecondaryFields :
      ( /\ FileParses(slug, "en") /\ FileParses(slug, lang)
        /\ PresentInStore(slug, "en", f)
        /\ ~PresentInStore(slug, lang, f) )
      => ( /\ IssueCount(ValidationOf(slug), "missing_field", lang, f) >= 1
           /\ IsProblematic(slug) )

\* C4 amended: the baseline is the authority for the five content fields only: such a
\* field present in en and absent in a parsed zh-HK or zh-CN record is reported as a
\* missing_field issue and makes the entity incomplete, and no issue of either type
\* is ever reported for a secondary field.
C4_OnlyContentFieldsAreChecked ==
  Verified =>
    \A slug \in Herbs :
      LET v == ValidationOf(slug)
      IN  /\ \A lang \in OtherLangs : \A f \in MainFields :
                ( /\ FileParses(slug, "en") /\ FileParses(slug, lang)
                  /\ PresentInStore(slug, "en", f)
                  /\ ~PresentInStore(slug, lang, f) )
                => ( /\ IssueCount(v, "missing_field", lang, f) >= 1
                     /\ IsProblematic(slug) )
          /\ \A k \in 1..Len(v.schemaInconsistencies) :
                v.schemaInconsistencies[k].field \in MainFields

\* C4 witness: botanical_source is in en and not in zh-HK, and the entity is complete
C4_Witness ==
  /\ Verified
  /\ \E slug \in Herbs :
       /\ PresentInStore(slug, "en", "botanical_source")
       /\ FileParses(slug, "zh-HK")
       /\ ~PresentInStore(slug, "zh-HK", "botanical_source")
       /\ ~IsProblematic(slug)

\* The (entity, language, field) triples with the field present in the baseline
\* record and absent in the non-baseline record
MissingTriples ==
  {t \in Herbs \X OtherLangs \X MainFields :
     /\ FileParses(t[1], "en") /\ FileParses(t[1], t[2])
     /\ PresentInStore(t[1], "en", t[3])
     /\ ~PresentInStore(t[1], t[2], t[3])}

\* C5: the total inconsistency count equals the number of (entity, language, field)
\* triples with the field present in the baseline and absent in the other language.
C5_TotalCountsMissingTriples ==
  Verified => results.summary.schemaInconsistencies = Cardinality(MissingTriples)

\* C7: a file that exists and fails to parse is an error entry of its language and is
\* not a missing language, in the entity and in the summary; a file that does not
\* exist is a missing language and has no language entry.
C7_ParseFailureIsNotMissing ==
  Verified =>
    /\ \A slug \in Herbs : \A lang \in Langs :
         LET v == ValidationOf(slug)
         IN  /\ (FileExists(slug, lang) /\ ~FileParses(slug, lang)) =>
                  /\ lang \in DOMAIN v.languages
                  /\ v.languages[lang].error # ""
                  /\ ~InSeq(lang, v.missingLanguages)
             /\ ~FileExists(slug, lang) =>
                  /\ lang \notin DOMAIN v.languages
                  /\ InSeq(lang, v.missingLanguages)
             /\ FileParses(slug, lang) =>
                  /\ lang \in DOMAIN v.languages
                  /\ v.languages[lang].error = ""
                  /\ ~InSeq(lang, v.missingLanguages)
    /\ \A lang \in Langs :
         results.summary.missingLanguages[lang] =
           Cardinality({slug \in Herbs : ~FileExists(slug, lang)})

\* C7 witness: one entity with an unparseable zh-HK file and no zh-CN file
C7_Witness ==
  /\ Verified
  /\ \E slug \in Herbs :
       /\ FileExists(slug, "zh-HK") /\ ~FileParses(slug, "zh-HK")
       /\ ~FileExists(slug, "zh-CN")
       /\ ValidationOf(slug).missingLanguages = <<"zh-CN">>

WithoutTimestamp(r) == [r EXCEPT !.timestamp = 0]

\* C8: no step of a verifier run, whatever the flags, changes the content store, and
\* a second run on the same store produces the results of the first apart from the
\* timestamp.
C8_VerifierLeavesStoreUnchanged ==
  /\ [][store' = store]_vars
  /\ []((runs >= 2 /\ Verified) => WithoutTimestamp(results) = WithoutTimestamp(prevResults))

\* C8 witness: the second run has ended after writing both report files
C8_Witness ==
  /\ runs = 2 /\ pc = "exit" /\ "--report" \in args
  /\ DOMAIN rootFiles = {ReportMd, ReportJson}
  /\ results.timestamp # prevResults.timestamp
  /\ results.summary.incompleteHerbs >= 1

\* p is x = 100 * present / total rounded to the nearest integer, a half rounded up
IsRounded(p, present, total) ==
  /\ 2 * total * p <= 200 * present + total
  /\ 2 * total * p > 200 * present - total

CoverageIsRounded(lines) ==
  \A i \in 1..Len(lines) :
    LET lang == lines[i].language
        total == Cardinality(Herbs)
    IN  /\ lines[i].present = Cardinality({slug \in Herbs : FileExists(slug, lang)})
        /\ lines[i].present = total - Cardinality({slug \in Herbs : ~FileExists(slug, lang)})
        /\ IsRounded(lines[i].percentage, lines[i].present, total)

ReplaceNonSlugChars(s) ==
  [i \in 1..Len(s) |-> IF IsLowerLetter(s[i]) \/ IsDigit(s[i]) \/ s[i] = "-" THEN s[i] ELSE "-"]

\* toLowerCase().replace(/[^a-z0-9-]/g, '-').replace(/-+/g, '-').replace(/^-|-$/g, '')
slugify(s) == TrimHyphens(CollapseHyphens(ReplaceNonSlugChars(ToLower(s))))

\* extractSlugFromUrl: the last non-empty path segment, slugified
extractSlugFromUrl(url) == slugify(url.last)

LastDot(s) ==
  IF \E i \in 1..Len(s) : s[i] = "."
  THEN CHOOSE i \in 1..Len(s) : s[i] = "." /\ \A j \in (i + 1)..Len(s) : s[j] # "."
  ELSE 0

\* replace(/\.[^.]+$/, '')
StripExtension(s) ==
  LET d == LastDot(s) IN IF d > 0 /\ d < Len(s) THEN SubSeq(s, 1, d - 1) ELSE s

RECURSIVE TrailingDigits(_)
TrailingDigits(s) ==
  IF s # <<>> /\ IsDigit(s[Len(s)]) THEN 1 + TrailingDigits(SubSeq(s, 1, Len(s) - 1)) ELSE 0

\* replace(/-\d+$/, '')
StripNumberSuffix(s) ==
  LET k == TrailingDigits(s)
  IN  IF k > 0 /\ Len(s) > k /\ s[Len(s) - k] = "-" THEN SubSeq(s, 1, Len(s) - k - 1) ELSE s

\* path.extname(pathname) || '.jpg'
ExtNameOrJpg(file) ==
  LET d == LastDot(file)
  IN  IF d > 1 THEN SubSeq(file, d, Len(file)) ELSE <<".", "j", "p", "g">>

\* An og:image URL: absent, or a string that new URL() accepts or rejects, with the
\* file name of its path and whether the server serves it
Image(file, served) == [present |-> TRUE, valid |-> TRUE, file |-> file, served |-> served]
BadImage == [present |-> TRUE, valid |-> FALSE, file |-> <<>>, served |-> FALSE]

\* extractSlugFromImageUrl of scraper v6: null (here NoSlug) without a URL or when
\* new URL() throws
extractSlugFromImageUrl(imageUrl) ==
  IF ~imageUrl.present \/ ~imageUrl.valid THEN NoSlug
  ELSE slugify(StripNumberSuffix(StripExtension(imageUrl.file)))

\* cleanText on a text without markup or entities: white space collapsed and trimmed
cleanText(text) == Trim(CollapseSpaces(text))

normalizeScientificName(name) ==
  IF name = <<>> THEN <<>>
  ELSE Trim(CollapseSpaces(SelectSeq(ToLower(name),
                                     LAMBDA c : IsLowerLetter(c) \/ IsSpace(c))))

\* CONFIG.categories, in the order of its keys
CATEGORIES ==
  << [cat |-> "chinese-herbs", path |-> "chiherbs"],
     [cat |-> "western-herbs", path |-> "westherbs"],
     [cat |-> "vitamins", path |-> "vitamins"],
     [cat |-> "minerals", path |-> "minerals"],
     [cat |-> "nutrients", path |-> "nutrients"] >>

\* The first category whose path fragment the URL includes, or ''
categoryOfUrl(url) ==
  IF \E i \in 1..Len(CATEGORIES) : CATEGORIES[i].path = url.path
  THEN CATEGORIES[CHOOSE i \in 1..Len(CATEGORIES) : CATEGORIES[i].path = url.path].cat
  ELSE ""

parseHerbPage(page, url, language) ==
  [url |-> url,
   title |-> Trim(page.ogTitle),
   scientificName |-> cleanText(page.sci),
   imageUrl |-> page.image,
   slug |-> IF language = "en" THEN extractSlugFromUrl(url) ELSE NoSlug,
   category |-> categoryOfUrl(url),
   sections |-> page.sections]

\* A Map in insertion order: a sequence of [key, value]; set() on a key that is
\* there replaces the value in place
MapHas(m, k) == \E i \in 1..Len(m) : m[i].key = k
MapGet(m, k) == m[CHOOSE i \in 1..Len(m) : m[i].key = k].value
MapSet(m, k, v) ==
  IF MapHas(m, k)
  THEN [i \in 1..Len(m) |-> IF m[i].key = k THEN [key |-> k, value |-> v] ELSE m[i]]
  ELSE Append(m, [key |-> k, value |-> v])
MapKeys(m) == {m[i].key : i \in 1..Len(m)}

\* The first of a set of indices: where a loop with break stops, or 0
FirstIndex(S) == IF S = {} THEN 0 ELSE CHOOSE i \in S : \A j \in S : i <= j

\* Strategy 1: sciNameToSlug.get(normalizeScientificName(data.scientificName))
exactSciNameMatch(data, index, sciIndex) ==
  IF data.scientificName # <<>>
     /\ normalizeScientificName(data.scientificName) \in DOMAIN sciIndex
  THEN sciIndex[normalizeScientificName(data.scientificName)]
  ELSE NoSlug

\* Strategy 2: the first baseline entry one of whose normalized names includes the other
partialSciNameMatch(data, index, sciIndex) ==
  LET cnNorm == normalizeScientificName(data.scientificName)
      hit(i) == LET enNorm == normalizeScientificName(index[i].value.scientificName)
                IN  /\ data.scientificName # <<>>
                    /\ index[i].value.scientificName # <<>>
                    /\ cnNorm # <<>> /\ enNorm # <<>>
                    /\ (Includes(cnNorm, enNorm) \/ Includes(enNorm, cnNorm))
      i == FirstIndex({k \in 1..Len(index) : hit(k)})
  IN  IF i = 0 THEN NoSlug ELSE index[i].key

\* Strategy 3: the slug derived from the candidate's image, if it is a baseline slug
imageFilenameMatch(data, index, sciIndex) ==
  LET imageSlug == extractSlugFromImageUrl(data.imageUrl)
  IN  IF data.imageUrl.present /\ imageSlug # NoSlug /\ MapHas(index, imageSlug)
      THEN imageSlug ELSE NoSlug

\* slug.replace(/-/g, ' ')
HyphensToSpaces(s) == [i \in 1..Len(s) |-> IF s[i] = "-" THEN " " ELSE s[i]]

\* Strategy 4: the first baseline entry whose title contains or is contained in the
\* candidate's title, or whose slug, hyphens as spaces, the candidate's title contains
titleMatch(data, index, sciIndex) ==
  LET cnTitleLower == ToLower(data.title)
      hit(i) == LET enTitleLower == ToLower(index[i].value.title)
                IN  \/ Includes(cnTitleLower, enTitleLower)
                    \/ Includes(enTitleLower, cnTitleLower)
                    \/ Includes(cnTitleLower, HyphensToSpaces(index[i].key))
      i == FirstIndex({k \in 1..Len(index) : hit(k)})
  IN  IF i = 0 THEN NoSlug ELSE index[i].key

titleMatchMethod(data, index, slug) ==
  LET cnTitleLower == ToLower(data.title)
      enTitleLower == ToLower(MapGet(index, slug).title)
  IN  IF Includes(cnTitleLower, enTitleLower) \/ Includes(enTitleLower, cnTitleLower)
      THEN "title match" ELSE "slug in title"

\* Seeded fault: the title strategy is tried before the others
matchSlug_TitleFirst(data, index, sciIndex) ==
  LET m4 == titleMatch(data, index, sciIndex)
      m1 == exactSciNameMatch(data, index, sciIndex)
      m2 == partialSciNameMatch(data, index, sciIndex)
      m3 == imageFilenameMatch(data, index, sciIndex)
  IN  IF m4 # NoSlug THEN [slug |-> m4, method |-> titleMatchMethod(data, index, m4)]
      ELSE IF m1 # NoSlug THEN [slug |-> m1, method |-> "scientific name"]
      ELSE IF m2 # NoSlug THEN [slug |-> m2, method |-> "partial scientific name"]
      ELSE IF m3 # NoSlug THEN [slug |-> m3, method |-> "image filename"]
      ELSE [slug |-> NoSlug, method |-> ""]

\* The cascade of scrapeChinese: each strategy runs only if (!matchedSlug)
matchSlug(data, index, sciIndex) ==
  LET m1 == exactSciNameMatch(data, index, sciIndex)
      m2 == partialSciNameMatch(data, index, sciIndex)
      m3 == imageFilenameMatch(data, index, sciIndex)
      m4 == titleMatch(data, index, sciIndex)
  IN  IF m1 # NoSlug THEN [slug |-> m1, method |-> "scientific name"]
      ELSE IF m2 # NoSlug THEN [slug |-> m2, method |-> "partial scientific name"]
      ELSE IF m3 # NoSlug THEN [slug |-> m3, method |-> "image filename"]
      ELSE IF m4 # NoSlug THEN [slug |-> m4, method |-> titleMatchMethod(data, index, m4)]
      ELSE [slug |-> NoSlug, method |-> ""]

Atom(x) == IF x = "" THEN <<>> ELSE <<x>>

\* new Date().toISOString(), one character per tick
Stamp(now) == <<"T">> \o [i \in 1..now |-> "i"]

UrlText(url) == <<url.lang, url.path>> \o url.last

\* sectionOrder of scraper v6
SECTION_ORDER ==
  <<"history", "introduction", "botanical_source", "traditional_usage", "modern_usage",
    "modern_research", "functions", "importance", "food_sources", "precautions", "dosage">>

\* The keys of sectionOrder that data.sections holds with a non-empty value
writtenSections(order, sections) ==
  {order[i] : i \in {j \in 1..Len(order) : order[j] \in DOMAIN sections
                                            /\ sections[order[j]] # <<>>}}

\* generateYaml of scraper v6, as the mapping the document holds
generateYaml(data, language, slug, now) ==
  LET fixed == ("id" :> Str(slug)) @@ ("slug" :> Str(slug))
                 @@ ("category" :> Str(Atom(data.category)))
                 @@ ("title" :> Str(data.title))
                 @@ ("image" :> Str(<<"images/">> \o slug \o <<".jpg">>))
                 @@ ("metadata.source" :> Str(<<"vitaherbapedia.com">>))
                 @@ ("metadata.source_url" :> Str(UrlText(data.url)))
                 @@ ("metadata.scraped_at" :> Str(Stamp(now)))
                 @@ ("metadata.language" :> Str(<<language>>))
      sci == IF data.scientificName # <<>>
             THEN ("scientific_name" :> Str(data.scientificName)) ELSE EmptyMap
      secs == [k \in writtenSections(SECTION_ORDER, data.sections) |-> Str(data.sections[k])]
  IN  secs @@ sci @@ fixed

\* ensureDir(herbDir); ensureDir(path.join(herbDir, 'images'))
ensureDir(st, slug) ==
  IF slug \in DOMAIN st THEN st ELSE (slug :> HerbDir(EmptyMap)) @@ st

\* Seeded fault: the directory is made anew for the file
writeFile_Replace(st, slug, language, file) ==
  [st EXCEPT ![slug].files = language :> file]

\* fs.writeFileSync(path.join(CONTENT_DIR, slug, `${language}.yaml`), yamlContent)
writeFile(st, slug, language, file) ==
  [st EXCEPT ![slug].files = (language :> file) @@ @]

\* The image download of scrapeEnglish: skipped when the file is there, and
\* nothing is written when the download fails
downloadImage(st, slug, imageUrl) ==
  IF imageUrl.present /\ imageUrl.served
  THEN [st EXCEPT ![slug].images = @ \cup {slug \o ExtNameOrJpg(imageUrl.file)}]
  ELSE st

\* scrapeEnglish from ensureDir to writeFileSync, for a page with title and slug
persistEnglish(st, data, now) ==
  writeFile(downloadImage(ensureDir(st, data.slug), data.slug, data.imageUrl),
            data.slug, "en", Yaml(generateYaml(data, "en", data.slug, now)))

\* Seeded fault: an unmatched page is written too, under the slug of its image or,
\* without one, of its title
persistChinese_Always(st, data, language, m, now) ==
  LET own == IF extractSlugFromImageUrl(data.imageUrl) # NoSlug
             THEN extractSlugFromImageUrl(data.imageUrl) ELSE <<"x">>
      slug == IF m.slug # NoSlug THEN m.slug ELSE own
  IN  writeFile(ensureDir(st, slug), slug, language,
                Yaml(generateYaml(data, language, slug, now)))

\* scrapeChinese: the file is written if (matchedSlug), into the matched directory
persistChinese(st, data, language, m, now) ==
  IF m.slug # NoSlug
  THEN writeFile(st, m.slug, language, Yaml(generateYaml(data, language, m.slug, now)))
  ELSE st

(***************************************************************************)
(* The run of scraper v6: main clears the entity directories, scrapeEnglish*)
(* visits the item URLs of the baseline listing, scrapeChinese visits      *)
(* those of zh-HK and then of zh-CN, and main writes index.yaml.           *)
(***************************************************************************)

MaxEnUrls == 2
MaxZhUrls == 2

\* The item URLs of the baseline listings; the third derives the slug of the first
EnUrls ==
  << [lang |-> "en", path |-> "minerals", last |-> <<"C", "a">>],
     [lang |-> "en", path |-> "chiherbs", last |-> <<"p", "_", "g">>],
     [lang |-> "en", path |-> "shop", last |-> <<"c", "a", "-">>],
     [lang |-> "en", path |-> "vitamins", last |-> <<"v", "1">>] >>

\* CONFIG.languages[language].path
LanguagePath(language) ==
  IF language = "zh-HK" THEN "zh" ELSE IF language = "zh-CN" THEN "cn" ELSE "en"

\* The i-th item URL of the Chinese listings
ZhUrl(language, i) ==
  [lang |-> LanguagePath(language), path |-> "chiherbs", last |-> <<"#", HerbLetters[i]>>]

\* What a fetch of an item URL may return: null, or a page
FetchFailed ==
  [ok |-> FALSE, ogTitle |-> <<>>, sci |-> <<>>, image |-> NoImage, sections |-> EmptyMap]
Page(ogTitle, sci, image, sections) ==
  [ok |-> TRUE, ogTitle |-> ogTitle, sci |-> sci, image |-> image, sections |-> sections]

EnPages ==
  { FetchFailed,
    Page(<<>>, <<"P", "g">>, NoImage, EmptyMap),
    Page(<<"C", "a", " ">>, <<>>, Image(<<"C", "a", ".", "p", "n", "g">>, TRUE),
         "history" :> Text),
    Page(<<"G">>, <<" ", "P", "g">>, Image(<<"g", ".", "j", "p", "g">>, FALSE),
         ("history" :> Text) @@ ("dosage" :> Text)),
    Page(<<"B">>, <<"1">>, BadImage, EmptyMap),
    Page(<<"N">>, <<>>, NoImage, "functions" :> Text) }

ZhPages ==
  { FetchFailed,
    Page(<<>>, <<"P", "g">>, NoImage, EmptyMap),
    Page(<<"#", "C", "a", " ", "G">>, <<"p", "g", "1">>, NoImage, "history" :> Text),
    Page(<<"#">>, <<"P", "g", " ", " ", "v">>, NoImage, EmptyMap),
    Page(<<"#">>, <<"2">>, Image(<<"C", "a", "-", "1", ".", "j", "p", "g">>, TRUE), EmptyMap),
    Page(<<"#", "P", " ", "G">>, <<>>, BadImage, "functions" :> Text),
    Page(<<"#">>, <<"#">>, NoImage, "history" :> Text) }

\* Seeded fault: the run starts on the store as it is
ClearContent_KeepsStore ==
  /\ pc = "v6_clear"
  /\ store' = store
  /\ slugToData' = <<>>
  /\ sciNameToSlug' = EmptyMap
  /\ idx' = 0
  /\ pc' = "v6_en"
  /\ UNCHANGED <<rootFiles, calc, crawl, repair, args, clock, results, prevResults, runs, stdout,
                 matched, unmatched, titled, log, queue>>

\* main: every directory of CONTENT_DIR is removed, files stay
ClearContent ==
  /\ pc = "v6_clear"
  /\ store' = [name \in {n \in DOMAIN store : ~store[n].isDir} |-> store[name]]
  /\ slugToData' = <<>>
  /\ sciNameToSlug' = EmptyMap
  /\ idx' = 0
  /\ pc' = "v6_en"
  /\ UNCHANGED <<rootFiles, calc, crawl, repair, args, clock, results, prevResults, runs, stdout,
                 matched, unmatched, titled, log, queue>>

\* sciNameToSlug.set(normalizedSciName, slug), for a name that is there and does
\* not normalize to ''
indexScientificName(sciIndex, data) ==
  LET normalizedSciName == normalizeScientificName(data.scientificName)
  IN  IF data.scientificName # <<>> /\ normalizedSciName # <<>>
      THEN (normalizedSciName :> data.slug) @@ sciIndex
      ELSE sciIndex

\* One iteration of scrapeEnglish's loop over the item URLs
ScrapeEnglishItem ==
  /\ pc = "v6_en"
  /\ idx < MaxEnUrls /\ idx < Len(EnUrls)
  /\ \E page \in EnPages :
       LET url == EnUrls[idx + 1]
           data == parseHerbPage(page, url, "en")
       IN  IF ~page.ok
           THEN /\ log' = Logged("failed", "en", NoData, NoSlug, "")
                /\ pc' = pc
                /\ UNCHANGED <<store, slugToData, sciNameToSlug>>
           ELSE IF data.title = <<>> \/ data.slug = NoSlug
           THEN /\ log' = Logged("skipped", "en", data, NoSlug, "")
                /\ pc' = pc
                /\ UNCHANGED <<store, slugToData, sciNameToSlug>>
           ELSE IF data.imageUrl.present /\ ~data.imageUrl.valid
           THEN \* new URL(data.imageUrl) throws: main().catch(console.error)
                /\ store' = ensureDir(store, data.slug)
                /\ log' = Logged("failed", "en", data, data.slug, "")
                /\ pc' = "v6_failed"
                /\ UNCHANGED <<slugToData, sciNameToSlug>>
           ELSE /\ store' = persistEnglish(store, data, clock)
                /\ slugToData' = MapSet(slugToData, data.slug, data)
                /\ sciNameToSlug' = indexScientificName(sciNameToSlug, data)
                /\ log' = Logged("saved", "en", data, data.slug, "")
                /\ pc' = pc
  /\ idx' = idx + 1
  /\ clock' = clock + 1
  /\ UNCHANGED <<rootFiles, calc, crawl, repair, args, results, prevResults, runs, stdout,
                 matched, unmatched, titled, queue>>

\* scrapeEnglish returns; main goes on to the Chinese passes
EndEnglish ==
  /\ pc = "v6_en"
  /\ idx >= MaxEnUrls \/ idx >= Len(EnUrls)
  /\ pc' = "v6_zh_start"
  /\ queue' = <<"zh-HK", "zh-CN">>
  /\ idx' = 0
  /\ UNCHANGED <<store, rootFiles, calc, crawl, repair, args, clock, results, prevResults, runs, stdout,
                 slugToData, sciNameToSlug, matched, unmatched, titled, log>>

\* scrapeChinese(language, slugToData, sciNameToSlug) is entered
StartChinese ==
  /\ pc = "v6_zh_start"
  /\ matched' = 0
  /\ unmatched' = 0
  /\ titled' = 0
  /\ pc' = "v6_zh"
  /\ UNCHANGED <<store, rootFiles, calc, crawl, repair, args, clock, results, prevResults, runs, stdout,
                 slugToData, sciNameToSlug, idx, log, queue>>

\* One iteration of scrapeChinese's loop over the item URLs; idx counts the item
\* URLs the Chinese passes have visited
ScrapeChineseItem ==
  /\ pc = "v6_zh"
  /\ idx < MaxZhUrls /\ idx < Len(HerbLetters)
  /\ \E page \in ZhPages :
       LET language == Head(queue)
           data == parseHerbPage(page, ZhUrl(language, idx + 1), language)
           m == matchSlug(data, slugToData, sciNameToSlug)
       IN  IF ~page.ok
           THEN /\ log' = Logged("failed", language, NoData, NoSlug, "")
                /\ pc' = pc
                /\ UNCHANGED <<store, matched, unmatched, titled>>
           ELSE IF data.title = <<>>
           THEN /\ log' = Logged("skipped", language, data, NoSlug, "")
                /\ pc' = pc
                /\ UNCHANGED <<store, matched, unmatched, titled>>
           ELSE IF m.slug # NoSlug
           THEN /\ matched' = matched + 1
                /\ titled' = titled + 1
                /\ unmatched' = unmatched
                /\ log' = Logged("matched", language, data, m.slug, m.method)
                /\ IF m.slug \in DOMAIN store /\ store[m.slug].isDir
                   THEN /\ store' = persistChinese(store, data, language, m, clock)
                        /\ pc' = pc
                   ELSE \* writeFileSync throws: main().catch(console.error)
                        /\ store' = store
                        /\ pc' = "v6_failed"
           ELSE /\ unmatched' = unmatched + 1
                /\ titled' = titled + 1
                /\ matched' = matched
                /\ log' = Logged("unmatched", language, data, NoSlug, "")
                /\ store' = persistChinese(store, data, language, m, clock)
                /\ pc' = pc
  /\ idx' = idx + 1
  /\ clock' = clock + 1
  /\ UNCHANGED <<rootFiles, calc, crawl, repair, args, results, prevResults, runs, stdout,
                 slugToData, sciNameToSlug, queue>>

\* scrapeChinese prints its counters and returns
EndChinese ==
  /\ pc = "v6_zh"
  /\ queue' = Tail(queue)
  /\ pc' = IF Tail(queue) = <<>> THEN "v6_index" ELSE "v6_zh_start"
  /\ UNCHANGED <<store, rootFiles, calc, crawl, repair, args, clock, results, prevResults, runs, stdout,
                 slugToData, sciNameToSlug, matched, unmatched, idx, titled, log>>

\* content.match(/^category:\s*"([^"]+)"/m) on an entity's en.yaml, '' without one
categoryOfEntry(entry) ==
  IF "en" \in DOMAIN entry.files /\ entry.files["en"].ok
     /\ "category" \in DOMAIN entry.files["en"].data
     /\ entry.files["en"].data["category"].s # <<>>
  THEN entry.files["en"].data["category"].s[1]
  ELSE ""

\* main: index.yaml with the number of directories and the count per category
indexContent(st) ==
  LET herbDirs == {n \in DOMAIN st : st[n].isDir}
      cats == {categoryOfEntry(st[n]) : n \in herbDirs} \ {""}
  IN  [total |-> Cardinality(herbDirs),
       categories |-> [c \in cats |->
                         Cardinality({n \in herbDirs : categoryOfEntry(st[n]) = c})]]

GenerateIndex ==
  /\ pc = "v6_index"
  /\ store' = (IndexName :> [PlainFile EXCEPT !.content = indexContent(store)]) @@ store
  /\ pc' = "v6_done"
  /\ UNCHANGED <<rootFiles, calc, crawl, repair, args, clock, results, prevResults, runs, stdout,
                 slugToData, sciNameToSlug, matched, unmatched, idx, titled, log, queue>>

NextScrapeV6 ==
  \/ ClearContent
  \/ ScrapeEnglishItem
  \/ EndEnglish
  \/ StartChinese
  \/ ScrapeChineseItem
  \/ EndChinese
  \/ GenerateIndex

\* The store the run starts on: left by an earlier run, with a Chinese record in a
\* directory of its own and records in a directory the run makes again
InitScrapeV6 ==
  /\ store = (<<"o", "l", "d">> :> HerbDir("zh-HK" :> Full))
             @@ (<<"c", "a">> :> HerbDir(("en" :> Full) @@ ("zh-CN" :> Full)))
             @@ OtherEntries
  /\ args = {}
  /\ pc = "v6_clear"
  /\ InitIdle

SpecScrapeV6 == InitScrapeV6 /\ [][NextScrapeV6]_vars

(***************************************************************************)
(* The per-language scraper (scrape-herbapedia.js, v3): scrapeHerbapedia   *)
(* runs scrapeLanguage for the language of --lang, or for every language   *)
(* with --all-languages, and then writes index.yaml.                       *)
(***************************************************************************)

\* String.prototype.replace(/pat/g, rep) for a literal pattern
RECURSIVE ReplaceAll(_, _, _)
ReplaceAll(s, pat, rep) ==
  IF s = <<>> THEN <<>>
  ELSE IF StartsWith(s, pat)
       THEN rep \o ReplaceAll(SubSeq(s, Len(pat) + 1, Len(s)), pat, rep)
       ELSE <<Head(s)>> \o ReplaceAll(Tail(s), pat, rep)

safeFilename(str) ==
  IF str = <<>> THEN <<>>
  ELSE TrimHyphens(CollapseHyphens(ReplaceNonSlugChars(
         ReplaceAll(ReplaceAll(ToLower(str), <<"&", "#", "0", "3", "9", ";">>, <<"'">>),
                    <<"&", "a", "m", "p", ";">>, <<"&">>))))

\* extractSlugFromImageUrl of scraper v3: '' without a URL or when new URL() throws
extractSlugFromImageUrlV3(imageUrl) ==
  IF ~imageUrl.present \/ ~imageUrl.valid THEN NoSlug
  ELSE safeFilename(StripNumberSuffix(StripExtension(imageUrl.file)))

\* parseHerbPage of scraper v3: the slug comes from the image, for every language
parseHerbPageV3(page, url) ==
  [url |-> url,
   title |-> Trim(page.ogTitle),
   scientificName |-> cleanText(page.sci),
   imageUrl |-> page.image,
   slug |-> IF page.image.present THEN extractSlugFromImageUrlV3(page.image) ELSE NoSlug,
   category |-> categoryOfUrl(url),
   sections |-> page.sections]

\* generateYaml of scraper v3, as the mapping the document holds: the sections of
\* sectionOrder and then every other section
generateYamlV3(data, language, slug, now) ==
  LET fixed == ("id" :> Str(slug)) @@ ("slug" :> Str(slug))
                 @@ ("category" :> Str(Atom(data.category)))
                 @@ ("title" :> Str(data.title))
                 @@ ("image" :> Str(<<"images/">> \o slug \o <<".jpg">>))
                 @@ ("metadata.source" :> Str(<<"vitaherbapedia.com">>))
                 @@ ("metadata.source_url" :> Str(UrlText(data.url)))
                 @@ ("metadata.scraped_at" :> Str(Stamp(now)))
                 @@ ("metadata.language" :> Str(<<language>>))
      sci == IF data.scientificName # <<>>
             THEN ("scientific_name" :> Str(data.scientificName)) ELSE EmptyMap
      secs == [k \in {k \in DOMAIN data.sections : data.sections[k] # <<>>} |->
                 Str(data.sections[k])]
  IN  secs @@ sci @@ fixed

\* The command lines the scraper is started with
V3Args ==
  { {},
    {"--lang zh-HK"},
    {"--lang zh-CN", "--skip-images"},
    {"--all-languages"},
    {"--lang zh-HK", "--dry-run"} }

\* options.language: 'en' unless --lang names another
languageOption(a) ==
  IF "--lang zh-HK" \in a THEN "zh-HK" ELSE IF "--lang zh-CN" \in a THEN "zh-CN" ELSE "en"

\* allLanguages ? Object.keys(CONFIG.languages) : [language]
languagesToScrape(a) ==
  IF "--all-languages" \in a THEN REQUIRED_LANGUAGES ELSE <<languageOption(a)>>

MaxV3Urls == 2

\* The i-th item URL of the listings of a language
V3Url(language, i) ==
  [lang |-> LanguagePath(language), path |-> "chiherbs", last |-> <<"u", HerbLetters[i]>>]

V3Pages ==
  { FetchFailed,
    Page(<<>>, <<>>, Image(<<"C", "a", ".", "j", "p", "g">>, TRUE), EmptyMap),
    Page(<<"#">>, <<>>, NoImage, "history" :> Text),
    Page(<<"C", "a">>, <<>>, Image(<<"C", "a", "-", "1", ".", "j", "p", "g">>, TRUE),
         "history" :> Text),
    Page(<<"G">>, <<"P", "g">>,
         Image(<<"P", "&", "a", "m", "p", ";", "G", ".", "p", "n", "g">>, FALSE),
         ("history" :> Text) @@ ("tab-1" :> Text)) }

\* scrapeHerbapedia up to the loop over languagesToScrape
StartV3 ==
  /\ pc = "v3_start"
  /\ queue' = languagesToScrape(args)
  /\ pc' = "v3_lang"
  /\ UNCHANGED <<store, rootFiles, calc, crawl, repair, args, clock, results, prevResults, runs, stdout,
                 slugToData, sciNameToSlug, matched, unmatched, idx, titled, log>>

\* scrapeLanguage from ensureDir(herbDir) to writeFileSync, for a page with title
\* and slug
persistV3(st, data, language, skipImages, now) ==
  LET made == ensureDir(st, data.slug)
      withImage == IF data.imageUrl.present /\ ~skipImages /\ language = "en"
                   THEN downloadImage(made, data.slug, data.imageUrl) ELSE made
  IN  writeFile(withImage, data.slug, language,
                Yaml(generateYamlV3(data, language, data.slug, now)))

\* One iteration of scrapeLanguage's loop over the item URLs; idx counts the item
\* URLs visited so far
ScrapeLanguageItem ==
  /\ pc = "v3_lang"
  /\ queue # <<>>
  /\ "--dry-run" \notin args
  /\ idx < MaxV3Urls /\ idx < Len(HerbLetters)
  /\ \E page \in V3Pages :
       LET language == Head(queue)
           data == parseHerbPageV3(page, V3Url(language, idx + 1))
       IN  IF ~page.ok
           THEN /\ log' = Logged("failed", language, NoData, NoSlug, "")
                /\ store' = store
           ELSE IF data.title = <<>> \/ data.slug = NoSlug
           THEN /\ log' = Logged("skipped", language, data, NoSlug, "")
                /\ store' = store
           ELSE /\ log' = Logged("saved", language, data, data.slug, "")
                /\ store' = persistV3(store, data, language, "--skip-images" \in args, clock)
  /\ idx' = idx + 1
  /\ clock' = clock + 1
  /\ UNCHANGED <<rootFiles, calc, crawl, repair, pc, args, results, prevResults, runs, stdout,
                 slugToData, sciNameToSlug, matched, unmatched, titled, queue>>

\* scrapeLanguage returns
EndLanguage ==
  /\ pc = "v3_lang"
  /\ queue # <<>>
  /\ queue' = Tail(queue)
  /\ UNCHANGED <<store, rootFiles, calc, crawl, repair, pc, args, clock, results, prevResults, runs, stdout,
                 slugToData, sciNameToSlug, matched, unmatched, idx, titled, log>>

\* scrapeHerbapedia after the loop: index.yaml is written if (!dryRun)
GenerateIndexV3 ==
  /\ pc = "v3_lang"
  /\ queue = <<>>
  /\ store' = IF "--dry-run" \in args THEN store
              ELSE (IndexName :> [PlainFile EXCEPT !.content = indexContent(store)]) @@ store
  /\ pc' = "v3_done"
  /\ UNCHANGED <<rootFiles, calc, crawl, repair, args, clock, results, prevResults, runs, stdout,
                 slugToData, sciNameToSlug, matched, unmatched, idx, titled, log, queue>>

\* The scraper is started again on the store it left
RunAgainV3 ==
  /\ pc = "v3_done"
  /\ \E a \in V3Args : args' = a
  /\ pc' = "v3_start"
  /\ UNCHANGED <<store, rootFiles, calc, crawl, repair, clock, results, prevResults, runs, stdout,
                 slugToData, sciNameToSlug, matched, unmatched, idx, titled, log, queue>>

NextScrapeV3 ==
  \/ StartV3
  \/ ScrapeLanguageItem
  \/ EndLanguage
  \/ GenerateIndexV3
  \/ RunAgainV3

\* The scraper starts on an empty store or on one that holds a complete entity
InitScrapeV3 ==
  /\ store \in {EmptyMap,
                (<<"c", "a">> :> HerbDir(("en" :> Full) @@ ("zh-HK" :> Full)))
                  @@ (IndexName :> PlainFile)}
  /\ \E a \in V3Args : args = a
  /\ pc = "v3_start"
  /\ InitIdle

SpecScrapeV3 == InitScrapeV3 /\ [][NextScrapeV3]_vars

(***************************************************************************)
(* Properties of the scrapers                                              *)
(***************************************************************************)

\* The last item step was a Chinese page with a title, run through the matcher
ChineseOutcome == log.lang \in OtherLangs /\ log.kind \in {"matched", "unmatched"}

\* What the four strategies find for the page last logged, in the order of the cascade
StrategyResults ==
  << exactSciNameMatch(log.data, slugToData, sciNameToSlug),
     partialSciNameMatch(log.data, slugToData, sciNameToSlug),
     imageFilenameMatch(log.data, slugToData, sciNameToSlug),
     titleMatch(log.data, slugToData, sciNameToSlug) >>

StrategyNames ==
  << {"scientific name"}, {"partial scientific name"}, {"image filename"},
     {"title match", "slug in title"} >>

\* The matched slug and method are those of the earliest strategy that finds a slug
EarliestStrategyWins ==
  LET r == StrategyResults
      hit(i) == r[i] # NoSlug
      first == FirstIndex({k \in 1..4 : hit(k)})
  IN  IF first = 0
      THEN log.kind = "unmatched" /\ log.slug = NoSlug
      ELSE log.kind = "matched" /\ log.slug = r[first] /\ log.method \in StrategyNames[first]

SameNormalizedName(a) ==
  normalizeScientificName(log.data.scientificName)
    = normalizeScientificName(slugToData[a].value.scientificName)

TitleContains(b) == Includes(ToLower(log.data.title), ToLower(slugToData[b].value.title))

\* C1 (as stated): the matched slug is that of the earliest strategy that succeeds,
\* and a candidate whose normalized scientific name equals that of baseline entity A
\* and whose title contains the title of baseline entity B is matched to A.
C1_ExactNameBeatsTitle ==
  ChineseOutcome =>
    /\ EarliestStrategyWins
    /\ \A a, b \in 1..Len(slugToData) :
         (SameNormalizedName(a) /\ TitleContains(b)) => log.slug = slugToData[a].key

\* C1 (amended): the matched slug is that of the earliest strategy that succeeds,
\* and a candidate whose normalized scientific name is not empty, equals that of
\* baseline entity A and is indexed to A (A is the last baseline entity scraped
\* under that name), and whose title contains the title of baseline entity B, is
\* matched to A.
C1_IndexedNameBeatsTitle ==
  ChineseOutcome =>
    /\ EarliestStrategyWins
    /\ \A a, b \in 1..Len(slugToData) :
         LET name == normalizeScientificName(log.data.scientificName)
         IN  (/\ name # <<>>
              /\ SameNormalizedName(a)
              /\ name \in DOMAIN sciNameToSlug
              /\ sciNameToSlug[name] = slugToData[a].key
              /\ TitleContains(b))
             => log.slug = slugToData[a].key

\* A candidate matched by its scientific name to A while its title contains the
\* title of another entity B, which the title strategy would have returned
C1_Witness ==
  /\ ChineseOutcome
  /\ log.method = "scientific name"
  /\ titleMatch(log.data, slugToData, sciNameToSlug) \notin {NoSlug, log.slug}
  /\ \E a, b \in 1..Len(slugToData) :
       /\ a # b
       /\ SameNormalizedName(a) /\ TitleContains(b)
       /\ log.slug = slugToData[a].key

LocalizedDirs(st) ==
  {n \in DOMAIN st : st[n].isDir /\ \E l \in OtherLangs : l \in DOMAIN st[n].files}

\* C9: every zh-HK or zh-CN record of the store lies in an entity directory that
\* also holds an en record (a directory that a non-baseline pass creates holds none).
C9_LocalizedRecordsHaveBaseline ==
  \A n \in LocalizedDirs(store) : "en" \in DOMAIN store[n].files

\* A step of scrapeChinese's loop over the item URLs
ChineseItemStep == pc = "v6_zh" /\ idx' = idx + 1

\* The page of the step was fetched and has a title
TitledPage == log'.kind # "failed" /\ log'.data.title # <<>>

\* C10: in scrapeChinese every fetched page with a title is counted exactly once, as
\* matched or as unmatched; its record is written if and only if it is matched; an
\* unmatched page leaves the store unchanged; matched + unmatched is the number of
\* such pages.
C10_EveryTitledPageCountedOnce ==
  /\ [](matched + unmatched = titled)
  /\ [][ChineseItemStep =>
          /\ TitledPage <=> (titled' = titled + 1)
          /\ ~TitledPage => (titled' = titled /\ matched' = matched
                             /\ unmatched' = unmatched /\ store' = store)
          /\ TitledPage =>
               \/ /\ log'.kind = "matched"
                  /\ matched' = matched + 1 /\ unmatched' = unmatched
                  /\ log'.slug \in DOMAIN store
                  /\ store' = [store EXCEPT ![log'.slug].files =
                                 (Head(queue) :> Yaml(generateYaml(log'.data, Head(queue),
                                                                   log'.slug, clock))) @@ @]
                  /\ store' # store
               \/ /\ log'.kind = "unmatched"
                  /\ unmatched' = unmatched + 1 /\ matched' = matched
                  /\ store' = store]_vars

\* A pass has ended in which one page was matched and written and another was
\* unmatched and dropped
C10_Witness ==
  /\ pc \in {"v6_zh_start", "v6_index"}
  /\ matched = 1 /\ unmatched = 1 /\ titled = 2
  /\ log.kind = "unmatched"
  /\ \E n \in DOMAIN store : store[n].isDir /\ \E l \in OtherLangs : l \in DOMAIN store[n].files

\* ---------------------------------------------------------------------------
\* The listing crawl: getCategoryUrls of scraper v6 (the pagination loop of
\* scrapeLanguage in scraper v3 has the same conditions and the same cap)
\* ---------------------------------------------------------------------------

\* Seeded fault: the cap lets one more page through
maxPages_Raised == 20 + 1

\* The cap of the pagination loop: pageNum <= 20
maxPages == 20

\* Sizes of the listings an orderly server serves
MaxTotal == 25

MaxPerPage == 9

\* A link of a listing page: href="..." is either relative ("/en/shop/x") or
\* absolute; id names the item the absolute URL points to.
Rel(i) == [rel |-> TRUE, id |-> i]

Abs(i) == [rel |-> FALSE, id |-> i]

\* The counter text of the first listing page ("Showing 1-9 of 25")
NoCount == [found |-> FALSE, n |-> 0]

Count(n) == [found |-> TRUE, n |-> n]

\* What a fetch produces: a body, or the failure of the request
Html(links, count) == [kind |-> "html", links |-> links, count |-> count]

NoHtml == [kind |-> "null", links |-> <<>>, count |-> NoCount]

Thrown == [kind |-> "thrown", links |-> <<>>, count |-> NoCount]

Failure == [ok |-> FALSE, body |-> NoHtml]

Success(body) == [ok |-> TRUE, body |-> body]

\* Seeded fault: fetchPage without its try/catch
fetchPage_Rethrow(response) == IF response.ok THEN response.body ELSE Thrown

\* fetchPage: every network error and every non-2xx status is caught, null is returned
fetchPage(response) == IF response.ok THEN response.body ELSE NoHtml

\* The elements of a list at the indices K, in their order
AtIndices(list, K) ==
  [n \in 1..Cardinality(K) |->
     list[CHOOSE i \in K : Cardinality({j \in K : j <= i}) = n]]

\* The link loop: `!urls.includes(url)` tests the href as written against the
\* absolute URLs pushed so far. A relative href is never included, so it is always
\* pushed; an absolute href is included exactly when an earlier link of the page
\* points to the same URL (a URL is pushed at its first occurrence).
pushed(links, i) ==
  links[i].rel \/ \A j \in 1..(i - 1) : links[j].id # links[i].id

extractUrls(links) ==
  LET kept == AtIndices(links, {i \in 1..Len(links) : pushed(links, i)})
  IN [n \in 1..Len(kept) |-> kept[n].id]

\* [...new Set(list)]: the first occurrences, in order
uniqueOf(list) ==
  AtIndices(list, {i \in 1..Len(list) : \A j \in 1..(i - 1) : list[j] # list[i]})

mergeUrls(urls, pageUrls) == uniqueOf(urls \o pageUrls)

\* if (pageUrls.length === 0) break
endOfResults(urls, pageUrls) == Len(pageUrls) = 0

\* Seeded fault: the loop goes on while the total is reached but not exceeded
loopCondition_Inclusive(c) == Len(c.urls) <= c.totalItems /\ c.pageNum <= maxPages

\* while (urls.length < totalItems && pageNum <= 20)
loopCondition(c) == Len(c.urls) < c.totalItems /\ c.pageNum <= maxPages

\* Number of URLs of a page that the accumulated list does not hold yet
NewUrls(urls, pageUrls) ==
  Cardinality({pageUrls[i] : i \in 1..Len(pageUrls)} \ {urls[i] : i \in 1..Len(urls)})

\* The listing pages of an orderly server: T items, P per page, the last page the rest
RelLinks(from, to) == [n \in 1..(to - from + 1) |-> Rel(from + n - 1)]

OrderlyPage(T, P, n) ==
  LET last == IF n * P < T THEN n * P ELSE T
  IN Html(RelLinks((n - 1) * P + 1, last), Count(T))

\* The listing pages of any other server
LinkChoices ==
  { <<>>, <<Rel(1), Rel(1)>>, <<Abs(1), Rel(2)>>, <<Rel(2), Abs(1)>>, <<Rel(3)>> }

CountChoices == {NoCount, Count(2), Count(4)}

ListingResponses(server, n) ==
  IF server.orderly THEN {Success(OrderlyPage(server.T, server.P, n))}
  ELSE {Failure} \cup {Success(Html(l, c)) : l \in LinkChoices, c \in CountChoices}

\* A fetch of the given kind is issued: was the previous fetch of the same kind
\* with no sleep since?
paced(c, kind) ==
  [c EXCEPT !.lastFetch = kind, !.slept = FALSE,
            !.unpaced = c.unpaced \cup (IF c.lastFetch = kind /\ ~c.slept THEN {kind} ELSE {})]

\* getCategoryUrls up to the while loop (l.573-605)
FetchFirstPage ==
  /\ pc = "list_first"
  /\ \E response \in ListingResponses(crawl.server, 1) :
     \E firstPageHtml \in {fetchPage(response)} :
     \E c \in {[paced(crawl, "listing") EXCEPT !.pages = <<1>>, !.afterStale = FALSE]} :
       IF firstPageHtml.kind = "thrown"
       THEN /\ pc' = "aborted"
            /\ crawl' = c
       ELSE IF firstPageHtml.kind = "null"
       THEN /\ pc' = "list_returned"
            /\ crawl' = [c EXCEPT !.urls = <<>>, !.totalItems = 0, !.lastNew = 0,
                                  !.failedAt = 1,
                                  !.failures = crawl.failures \cup {"first"}]
       ELSE \E urls \in {extractUrls(firstPageHtml.links)} :
            \E totalItems \in {IF firstPageHtml.count.found
                               THEN firstPageHtml.count.n ELSE Len(urls)} :
            \E d \in {[c EXCEPT !.urls = urls, !.totalItems = totalItems,
                                !.pageNum = 2, !.lastNew = NewUrls(<<>>, urls)]} :
              /\ crawl' = d
              /\ pc' = IF loopCondition(d) THEN "list_more" ELSE "list_returned"
  /\ UNCHANGED <<store, rootFiles, calc, args, clock, results, prevResults, runs, stdout,
                 slugToData, sciNameToSlug, matched, unmatched, idx, titled, log, queue,
                 repair>>

\* One round of the while loop (l.606-627), and the return when the loop ends
FetchNextPage ==
  /\ pc = "list_more"
  /\ loopCondition(crawl)
  /\ \E response \in ListingResponses(crawl.server, crawl.pageNum) :
     \E pageHtml \in {fetchPage(response)} :
     \E c \in {[paced(crawl, "listing") EXCEPT
                  !.pages = Append(crawl.pages, crawl.pageNum),
                  !.afterStale = crawl.afterStale \/ crawl.lastNew = 0]} :
       IF pageHtml.kind = "thrown"
       THEN /\ pc' = "aborted"
            /\ crawl' = c
       ELSE IF pageHtml.kind = "null"
       THEN /\ pc' = "list_returned"
            /\ crawl' = [c EXCEPT !.failedAt = crawl.pageNum,
                                  !.failures = crawl.failures \cup {"later"}]
       ELSE \E pageUrls \in {extractUrls(pageHtml.links)} :
              IF endOfResults(crawl.urls, pageUrls)
              THEN /\ pc' = "list_returned"
                   /\ crawl' = [c EXCEPT !.lastNew = 0]
              ELSE \E d \in {[c EXCEPT !.urls = mergeUrls(crawl.urls, pageUrls),
                                       !.pageNum = crawl.pageNum + 1,
                                       !.lastNew = NewUrls(crawl.urls, pageUrls),
                                       !.slept = TRUE]} :
                     /\ crawl' = d
                     /\ pc' = IF loopCondition(d) THEN "list_more" ELSE "list_returned"
  /\ UNCHANGED <<store, rootFiles, calc, args, clock, results, prevResults, runs, stdout,
                 slugToData, sciNameToSlug, matched, unmatched, idx, titled, log, queue,
                 repair>>

NextListing == FetchFirstPage \/ FetchNextPage

\* The crawl of one category, before its first request
NewCrawl(server) ==
  [server |-> server, urls |-> <<>>, totalItems |-> 0, pageNum |-> 1,
   pages |-> <<>>, lastNew |-> 0, afterStale |-> FALSE, failedAt |-> 0,
   lastFetch |-> "none", slept |-> FALSE, unpaced |-> {},
   cat |-> 1, item |-> 0, lastItem |-> "none", crawled |-> 0, failures |-> {}]

Orderly(T, P) == [orderly |-> TRUE, T |-> T, P |-> P]

AnyServer == [orderly |-> FALSE, T |-> 0, P |-> 0]

Servers == {AnyServer} \cup {Orderly(T, P) : T \in 1..MaxTotal, P \in 1..MaxPerPage}

InitListing ==
  /\ store = EmptyMap
  /\ args = {}
  /\ pc = "list_first"
  /\ rootFiles = EmptyMap
  /\ clock = 1
  /\ results = emptyResults(0, 0)
  /\ prevResults = emptyResults(0, 0)
  /\ runs = 1
  /\ stdout = NoOutput
  /\ slugToData = <<>>
  /\ sciNameToSlug = EmptyMap
  /\ matched = 0
  /\ unmatched = 0
  /\ idx = 0
  /\ titled = 0
  /\ log = NoLog
  /\ queue = <<>>
  /\ repair = NoRepair
  /\ \E server \in Servers : crawl = NewCrawl(server)
  /\ calc = NoCall

SpecListing == InitListing /\ [][NextListing]_vars

\* The event loop runs the continuation of every settled fetch
SpecListingFair == SpecListing /\ WF_vars(NextListing)

\* ---------------------------------------------------------------------------
\* A pass of scraper v6 as its requests: for every category the listing crawl,
\* then one fetch per returned URL (scrapeEnglish l.641-691, scrapeChinese
\* l.705-796; scrapeLanguage of scraper v3 has the same loops)
\* ---------------------------------------------------------------------------

\* Number of categories of CONFIG.categories a pass goes through here
MaxCategories == 2

\* An item page, with or without an og:title
ItemHtml(hasTitle) ==
  [kind |-> "html", links |-> <<>>, count |-> NoCount, hasTitle |-> hasTitle]

ItemResponses == {Failure, Success(ItemHtml(FALSE)), Success(ItemHtml(TRUE))}

\* One round of `for (const url of urls)`: a failed fetch and a page without
\* title `continue`; the sleep is the last statement of the loop body
FetchItem ==
  /\ pc = "list_returned"
  /\ crawl.item < Len(crawl.urls)
  /\ \E response \in ItemResponses :
     \E html \in {fetchPage(response)} :
     \E c \in {[paced(crawl, "item") EXCEPT !.item = crawl.item + 1]} :
       IF html.kind = "thrown"
       THEN /\ pc' = "aborted"
            /\ crawl' = c
       ELSE /\ pc' = pc
            /\ crawl' = IF html.kind = "null"
                        THEN [c EXCEPT !.lastItem = "failed",
                                       !.failures = crawl.failures \cup {"item"}]
                        ELSE IF ~html.hasTitle
                        THEN [c EXCEPT !.lastItem = "skipped"]
                        ELSE [c EXCEPT !.lastItem = "processed", !.slept = TRUE]
  /\ UNCHANGED <<store, rootFiles, calc, args, clock, results, prevResults, runs, stdout,
                 slugToData, sciNameToSlug, matched, unmatched, idx, titled, log, queue,
                 repair>>

\* The locals of the next getCategoryUrls call; what the run has done so far stays
nextCrawl(c, cat) ==
  [NewCrawl(c.server) EXCEPT !.lastFetch = c.lastFetch, !.slept = c.slept,
                             !.unpaced = c.unpaced, !.failures = c.failures,
                             !.crawled = c.crawled + 1, !.cat = cat]

\* `for (const category of Object.keys(CONFIG.categories))` moves on
EndCategory ==
  /\ pc = "list_returned"
  /\ crawl.item = Len(crawl.urls)
  /\ crawl.cat < MaxCategories
  /\ crawl' = nextCrawl(crawl, crawl.cat + 1)
  /\ pc' = "list_first"
  /\ UNCHANGED <<store, rootFiles, calc, args, clock, results, prevResults, runs, stdout,
                 slugToData, sciNameToSlug, matched, unmatched, idx, titled, log, queue,
                 repair>>

\* The pass of a language returns; main starts the pass of the next one (l.823-830)
EndPass ==
  /\ pc = "list_returned"
  /\ crawl.item = Len(crawl.urls)
  /\ crawl.cat = MaxCategories
  /\ queue # <<>>
  /\ queue' = Tail(queue)
  /\ crawl' = nextCrawl(crawl, 1)
  /\ pc' = IF Tail(queue) = <<>> THEN "pass_done" ELSE "list_first"
  /\ UNCHANGED <<store, rootFiles, calc, args, clock, results, prevResults, runs, stdout,
                 slugToData, sciNameToSlug, matched, unmatched, idx, titled, log,
                 repair>>

NextPass == FetchFirstPage \/ FetchNextPage \/ FetchItem \/ EndCategory \/ EndPass

\* main: scrapeEnglish, then scrapeChinese for zh-HK and for zh-CN
PassQueue == <<"en", "zh-HK", "zh-CN">>

InitPass ==
  /\ store = EmptyMap
  /\ args = {}
  /\ pc = "list_first"
  /\ rootFiles = EmptyMap
  /\ clock = 1
  /\ results = emptyResults(0, 0)
  /\ prevResults = emptyResults(0, 0)
  /\ runs = 1
  /\ stdout = NoOutput
  /\ slugToData = <<>>
  /\ sciNameToSlug = EmptyMap
  /\ matched = 0
  /\ unmatched = 0
  /\ idx = 0
  /\ titled = 0
  /\ log = NoLog
  /\ queue = PassQueue
  /\ repair = NoRepair
  /\ crawl = NewCrawl(AnyServer)
  /\ calc = NoCall

SpecPass == InitPass /\ [][NextPass]_vars

\* ---------------------------------------------------------------------------
\* Claims about the listing crawl
\* ---------------------------------------------------------------------------

CeilDiv(a, b) == (a + b - 1) \div b

Least(a, b) == IF a < b THEN a ELSE b

Returned == pc = "list_returned"

NoDuplicates(list) ==
  \A i \in 1..Len(list) : \A j \in 1..Len(list) : list[i] = list[j] => i = j

\* C11: when the first listing page reports T items and every listing page holds P
\* items not seen before (the last page the rest) and no fetch fails, the crawl of
\* the category fetches exactly min(ceil(T/P), 20) listing pages, the pages 1, 2, ...
\* in order; for T = 25 and P = 9 these are exactly 3 pages.
C11_PagesFetchedIsCappedCeiling ==
  (Returned /\ crawl.server.orderly) =>
    /\ Len(crawl.pages) = Least(CeilDiv(crawl.server.T, crawl.server.P), 20)
    /\ \A i \in 1..Len(crawl.pages) : crawl.pages[i] = i
    /\ (crawl.server.T = 25 /\ crawl.server.P = 9) => Len(crawl.pages) = 3

C11_Witness ==
  /\ Returned
  /\ crawl.server = Orderly(25, 9)
  /\ crawl.pages = <<1, 2, 3>>
  /\ Len(crawl.urls) = 25

\* C12: once a fetched listing page has contributed no new URL to the accumulated
\* list (it held no link, or only links already collected), no further listing page
\* of the category is fetched.
C12_NoFetchAfterPageWithoutNewUrls == ~crawl.afterStale

\* C13: whatever the server answers, the crawl of one category ends, and it fetches
\* at most 20 listing pages, whose indices lie in 1..20.
C13_CrawlTerminatesWithinCap ==
  /\ [](/\ Len(crawl.pages) <= 20
        /\ \A i \in 1..Len(crawl.pages) : crawl.pages[i] \in 1..20)
  /\ <>Returned

C13_Witness ==
  /\ Returned
  /\ ~crawl.server.orderly
  /\ Len(crawl.pages) = 20
  /\ crawl.pages[20] = 20
  /\ Len(crawl.urls) < crawl.totalItems

\* C14: the list of item URLs the crawl of a category returns holds no URL twice.
C14_ReturnedUrlsAreUnique == Returned => NoDuplicates(crawl.urls)

\* ---------------------------------------------------------------------------
\* Claims about the requests of a pass
\* ---------------------------------------------------------------------------

\* A listing fetch of the step failed
ListingFetchFails == crawl.failedAt = 0 /\ crawl'.failedAt # 0

\* An item fetch of the step failed
ItemFetchFails == crawl'.item = crawl.item + 1 /\ crawl'.lastItem = "failed"

PassLanguages == Len(PassQueue)

\* C15: a failed fetch never aborts the run. When the first listing page fails the
\* category yields the empty list; when a later listing page fails it yields the URLs
\* collected so far; when an item page fails only that item is passed over, nothing
\* is written and the loop stays at the next URL; and a run that ends has crawled
\* every category of every language.
C15_FetchFailureNeverAborts ==
  /\ [](pc # "aborted")
  /\ []((Returned /\ crawl.failedAt = 1) => crawl.urls = <<>>)
  /\ [][ListingFetchFails =>
          /\ pc' = "list_returned"
          /\ crawl'.failedAt > 1 => crawl'.urls = crawl.urls]_vars
  /\ [][ItemFetchFails =>
          /\ pc' = pc
          /\ crawl'.urls = crawl.urls
          /\ store' = store]_vars
  /\ [](pc = "pass_done" => crawl.crawled = PassLanguages * MaxCategories)

C15_Witness ==
  /\ pc = "pass_done"
  /\ crawl.failures = {"first", "later", "item"}
  /\ crawl.crawled = PassLanguages * MaxCategories

\* C16: no two listing-page fetches and no two item-page fetches follow each other
\* without a sleep between them.
C16_SleepBetweenConsecutiveFetches == crawl.unpaced = {}

\* ---------------------------------------------------------------------------
\* The repair script (fix-schema-inconsistencies.js l.1-310)
\* ---------------------------------------------------------------------------

\* A desc_containter block of a fetched page: the key mapTitleToKey gives its
\* title ("null" when it gives none) and the cleaned content
Container(key, content) == [key |-> key, content |-> content]

\* The body of an entry's page
ContentHtml(blocks) ==
  [kind |-> "html", links |-> <<>>, count |-> NoCount, blocks |-> blocks]

\* extractContentFromHtml: a block counts when its content is longer than 10
\* characters and its title maps to a key; a later block overwrites an earlier one
RECURSIVE extractContentFromHtml(_, _)
extractContentFromHtml(blocks, i) ==
  IF i = 0 THEN EmptyMap
  ELSE LET block == blocks[i]
       IN IF Len(block.content) > 10 /\ block.key # "null"
          THEN (block.key :> block.content) @@ extractContentFromHtml(blocks, i - 1)
          ELSE extractContentFromHtml(blocks, i - 1)

\* fetchContent: the body, or null for a network error and for a non-2xx status
fetchContent(response) == IF response.ok THEN response.body ELSE NoHtml

\* languageData[lang] is set: the file exists and yaml.load gave a document
loaded(st, slug, lang) == existsSync(st, slug, lang) /\ parseYaml(st, slug, lang).ok

\* Seeded fault: every field of the baseline counts as missing in the language
missingFieldsOf_AllBaseline(st, slug, lang) ==
  getPresentContentFields(parseYaml(st, slug, BASELINE_LANGUAGE).data)

\* fixes.filter(f => f.language === lang).map(f => f.field)
missingFieldsOf(st, slug, lang) ==
  LET baselineFields == getPresentContentFields(parseYaml(st, slug, BASELINE_LANGUAGE).data)
      langFields == getPresentContentFields(parseYaml(st, slug, lang).data)
  IN SelectSeq(baselineFields, LAMBDA field : ~InSeq(field, langFields))

\* languageData[lang].data.metadata?.source_url || getUrlForLanguage(enUrl, lang)
hasLangUrl(st, slug, lang) ==
  \/ Truthy(Get(parseYaml(st, slug, lang).data, "metadata.source_url"))
  \/ Truthy(Get(parseYaml(st, slug, BASELINE_LANGUAGE).data, "metadata.source_url"))

LineBreak == "\n"

\* The header of writeYaml is `# ${data.title}` and two more comment lines, put
\* before the dump as they are: the second line of a title of several lines is
\* text outside the comment, and the file is then a scalar followed by a mapping,
\* which yaml.load rejects.
headerIsComment(data) == ~InSeq(LineBreak, Get(data, "title").s)

\* writeYaml: fs.writeFileSync(filePath, header + yaml.dump(data))
writeYaml(st, slug, lang, data) ==
  writeFile(st, slug, lang, IF headerIsComment(data) THEN Yaml(data) ELSE Corrupt)

\* Seeded fault: the dry-run flag is not consulted
shouldWrite_Always(updated, dryRun) == updated

\* if (updated && !dryRun)
shouldWrite(updated, dryRun) == updated /\ ~dryRun

\* The missing fields the re-fetched page holds
foundFields(missingFields, sections) ==
  {missingFields[i] : i \in {j \in 1..Len(missingFields) : missingFields[j] \in DOMAIN sections}}

\* Is the page of lang fetched, and did the fetch give a body?
refetched(st, slug, lang, response) ==
  /\ lang # BASELINE_LANGUAGE
  /\ loaded(st, slug, lang)
  /\ missingFieldsOf(st, slug, lang) # <<>>
  /\ hasLangUrl(st, slug, lang)
  /\ fetchContent(response).kind = "html"

\* One round of the repair loop of fixHerbEntry (l.217-258)
repairLanguage(st, slug, lang, dryRun, response) ==
  IF ~refetched(st, slug, lang, response) THEN st
  ELSE LET html == fetchContent(response)
           sections == extractContentFromHtml(html.blocks, Len(html.blocks))
           data == parseYaml(st, slug, lang).data
           found == foundFields(missingFieldsOf(st, slug, lang), sections)
           updatedData == [k \in DOMAIN data \cup found |->
                             IF k \in found THEN Str(sections[k]) ELSE data[k]]
       IN IF shouldWrite(found # {}, dryRun)
          THEN writeYaml(st, slug, lang, updatedData)
          ELSE st

\* fixes: the {language, field} pairs pushed in the loop over REQUIRED_LANGUAGES,
\* empty when fixHerbEntry returns before it for want of a baseline
fixesOf(st, slug) ==
  IF ~loaded(st, slug, BASELINE_LANGUAGE) THEN {}
  ELSE UNION {{[language |-> lang, field |-> missingFieldsOf(st, slug, lang)[i]] :
                 i \in 1..Len(missingFieldsOf(st, slug, lang))} :
              lang \in {l \in Langs \ {BASELINE_LANGUAGE} : loaded(st, slug, l)}}

\* The baseline is loaded and fixes has entries
hasFixes(st, slug) ==
  /\ loaded(st, slug, BASELINE_LANGUAGE)
  /\ \E lang \in Langs \ {BASELINE_LANGUAGE} :
       loaded(st, slug, lang) /\ missingFieldsOf(st, slug, lang) # <<>>

\* fixHerbEntry: the store it leaves, the languages in REQUIRED_LANGUAGES order
fixHerbEntry(st, slug, dryRun, responses) ==
  IF ~hasFixes(st, slug) THEN st
  ELSE LET afterHK == repairLanguage(st, slug, "zh-HK", dryRun, responses["zh-HK"])
       IN repairLanguage(afterHK, slug, "zh-CN", dryRun, responses["zh-CN"])

LongText == <<"l", "o", "n", "g", " ", "c", "o", "n", "t", "e", "n", "t">>

\* What the site answers for the page of an entry
RepairResponses ==
  { Failure,
    Success(ContentHtml(<<>>)),
    Success(ContentHtml(<<Container("history", LongText)>>)),
    Success(ContentHtml(<<Container("functions", Text), Container("null", LongText)>>)),
    Success(ContentHtml(<<Container("history", LongText), Container("functions", LongText),
                          Container("botanical_source", LongText)>>)) }

\* main l.263-287: the flag, the directories, the counters
StartRepair ==
  /\ pc = "fix_start"
  /\ pc' = "fix_loop"
  /\ queue' = herbDirectories(store)
  /\ repair' = [total |-> Len(herbDirectories(store)), fixed |-> 0, unchanged |-> 0,
                errors |-> 0, updated |-> 0, slug |-> NoSlug, responses |-> EmptyMap,
                fixes |-> {}]
  /\ UNCHANGED <<store, rootFiles, calc, args, clock, results, prevResults, runs, stdout,
                 slugToData, sciNameToSlug, matched, unmatched, idx, titled, log, crawl>>

\* One round of `for (const slug of dirs)`: fixHerbEntry and the counters (l.289-298).
\* An entry without fixes returns issues: [] when its baseline is loaded (l.211) and
\* the no_baseline issue otherwise (l.185).
FixHerbEntry ==
  /\ pc = "fix_loop"
  /\ queue # <<>>
  /\ \E responses \in [Langs \ {BASELINE_LANGUAGE} -> RepairResponses] :
       LET slug == Head(queue)
           dryRun == "--dry-run" \in args
           fixes == hasFixes(store, slug)
           updates == Cardinality({lang \in Langs \ {BASELINE_LANGUAGE} :
                        /\ fixes
                        /\ refetched(store, slug, lang, responses[lang])
                        /\ foundFields(missingFieldsOf(store, slug, lang),
                             extractContentFromHtml(responses[lang].body.blocks,
                                                    Len(responses[lang].body.blocks))) # {}})
           baseline == loaded(store, slug, BASELINE_LANGUAGE)
       IN /\ store' = fixHerbEntry(store, slug, dryRun, responses)
          /\ repair' = [repair EXCEPT
                          !.fixed = IF fixes THEN @ + 1 ELSE @,
                          !.unchanged = IF ~fixes /\ baseline THEN @ + 1 ELSE @,
                          !.errors = IF ~baseline THEN @ + 1 ELSE @,
                          !.updated = @ + updates,
                          !.slug = slug,
                          !.responses = responses,
                          !.fixes = fixesOf(store, slug)]
  /\ queue' = Tail(queue)
  /\ UNCHANGED <<rootFiles, calc, pc, args, clock, results, prevResults, runs, stdout,
                 slugToData, sciNameToSlug, matched, unmatched, idx, titled, log, crawl>>

\* The summary (l.300-307)
EndRepair ==
  /\ pc = "fix_loop"
  /\ queue = <<>>
  /\ pc' = "fix_done"
  /\ UNCHANGED <<store, rootFiles, calc, args, clock, results, prevResults, runs, stdout,
                 slugToData, sciNameToSlug, matched, unmatched, idx, titled, log, queue,
                 crawl, repair>>

NextRepair == StartRepair \/ FixHerbEntry \/ EndRepair

\* The records of the entry the repair starts on
TwoLineTitle == ("title" :> Str(<<"C", LineBreak, "a">>)) @@ ("metadata.source_url" :> Str(<<"u">>))

RepairBaselines ==
  { Full, Short, Corrupt,
    Yaml(("history" :> Str(Text)) @@ ("functions" :> Str(Text)) @@ ("title" :> Str(<<"C">>))) }

RepairLocals ==
  { Full, Short, Corrupt, Yaml(Header),
    Yaml(("history" :> Str(Blank)) @@ ("dosage" :> NonString) @@ Header),
    Yaml(TwoLineTitle),
    Yaml("title" :> Str(<<"C">>)) }

Optional(lang, choices) == {EmptyMap} \cup {lang :> c : c \in choices}

RepairFiles ==
  { e @@ h @@ c : e \in Optional("en", RepairBaselines),
                  h \in Optional("zh-HK", RepairLocals),
                  c \in Optional("zh-CN", {Short, Corrupt}) }

InitRepair ==
  /\ \E files \in RepairFiles :
       store = (HerbSlug(1) :> HerbDir(files))
               @@ (HerbSlug(2) :> HerbDir(("en" :> Full) @@ ("zh-HK" :> Short)
                                          @@ ("zh-CN" :> Full)))
               @@ OtherEntries
  /\ args \in {{}, {"--dry-run"}}
  /\ pc = "fix_start"
  /\ rootFiles = EmptyMap
  /\ clock = 1
  /\ results = emptyResults(0, 0)
  /\ prevResults = emptyResults(0, 0)
  /\ runs = 1
  /\ stdout = NoOutput
  /\ slugToData = <<>>
  /\ sciNameToSlug = EmptyMap
  /\ matched = 0
  /\ unmatched = 0
  /\ idx = 0
  /\ titled = 0
  /\ log = NoLog
  /\ queue = <<>>
  /\ crawl = NoCrawl
  /\ repair = NoRepair
  /\ calc = NoCall

SpecRepair == InitRepair /\ [][NextRepair]_vars

\* ---------------------------------------------------------------------------
\* Claims about the repair script
\* ---------------------------------------------------------------------------

\* The step is a call of fixHerbEntry
RepairStep == pc = "fix_loop" /\ queue # <<>> /\ queue' = Tail(queue)

\* The step leaves another file under the name of lang in the entry's directory
Rewritten(slug, lang) ==
  /\ lang \in DOMAIN store'[slug].files
  /\ lang \notin DOMAIN store[slug].files \/ store'[slug].files[lang] # store[slug].files[lang]

\* The missing fields of lang that the page fetched in the step holds
Backfilled(slug, lang) ==
  foundFields(missingFieldsOf(store, slug, lang),
              extractContentFromHtml(repair'.responses[lang].body.blocks,
                                     Len(repair'.responses[lang].body.blocks)))

\* The file of lang after the step is the record read, with the backfilled fields set
OnlyBackfilled(slug, lang) ==
  /\ lang # BASELINE_LANGUAGE
  /\ loaded(store, slug, lang)
  /\ store'[slug].files[lang].ok
  /\ LET old == store[slug].files[lang].data
         new == store'[slug].files[lang].data
     IN \A k \in DOMAIN old \cup DOMAIN new :
          k \notin Backfilled(slug, lang) =>
            k \in DOMAIN old /\ k \in DOMAIN new /\ new[k] = old[k]

\* C17: a record that fixHerbEntry writes is the record read with nothing changed
\* but the fields that were missing for its language and were found in the
\* re-fetched page; no file is added or removed, no other entry is touched, and
\* the en record is never written.
C17_RepairWritesOnlyBackfilledFields ==
  [][RepairStep =>
       LET slug == Head(queue)
       IN /\ \A n \in DOMAIN store : n # slug => store'[n] = store[n]
          /\ DOMAIN store' = DOMAIN store
          /\ DOMAIN store'[slug].files = DOMAIN store[slug].files
          /\ \A lang \in Langs : Rewritten(slug, lang) => OnlyBackfilled(slug, lang)]_vars

DryRun == "--dry-run" \in args

\* C18: in a run with --dry-run no step changes a file of the content store (nor
\* writes any other file).
C18_DryRunWritesNothing ==
  [][(DryRun /\ pc \in {"fix_start", "fix_loop"}) =>
       store' = store /\ rootFiles' = rootFiles]_vars

C18_Witness ==
  /\ DryRun
  /\ pc = "fix_done"
  /\ repair.fixed = 2
  /\ repair.updated >= 2

\* ---------------------------------------------------------------------------
\* Both scrapers, for the claims about every scraping pass
\* ---------------------------------------------------------------------------

SpecScrapers == (InitScrapeV6 \/ InitScrapeV3) /\ [][NextScrapeV6 \/ NextScrapeV3]_vars

\* A pass is running: scrapeEnglish, scrapeChinese(L) or scrapeLanguage(L)
InPass == pc = "v6_en" \/ (pc \in {"v6_zh", "v3_lang"} /\ queue # <<>>)

PassLanguage == IF pc = "v6_en" THEN "en" ELSE Head(queue)

\* The record file of a language in an entity directory, if there is one
RecordOf(st, slug, lang) ==
  IF slug \in DOMAIN st /\ st[slug].isDir /\ lang \in DOMAIN st[slug].files
  THEN <<st[slug].files[lang]>> ELSE <<>>

\* C19: while the pass of a language L runs, no step creates, changes or deletes the
\* record file of another language, in any entity directory.
C19_PassTouchesOnlyItsLanguage ==
  [][InPass =>
       \A slug \in DOMAIN store \cup DOMAIN store' :
         \A lang \in Langs \ {PassLanguage} :
           RecordOf(store', slug, lang) = RecordOf(store, slug, lang)]_vars

\* A zh-CN pass has saved its record beside the en and zh-HK records of an earlier run
C19_Witness ==
  /\ pc = "v3_lang"
  /\ log.kind = "saved" /\ log.lang = "zh-CN" /\ log.slug = <<"c", "a">>
  /\ RecordOf(store, <<"c", "a">>, "en") = <<Full>>
  /\ RecordOf(store, <<"c", "a">>, "zh-HK") = <<Full>>
  /\ RecordOf(store, <<"c", "a">>, "zh-CN") # <<>>

\* ---------------------------------------------------------------------------
\* Claims about the full re-scrape (main of scraper v6)
\* ---------------------------------------------------------------------------

EntityDirs(st) == {n \in DOMAIN st : st[n].isDir}

\* The records the earlier run left
PreviousRecords == {Full}

HoldsPreviousRecord(st) ==
  \E n \in EntityDirs(st) : \E lang \in DOMAIN st[n].files : st[n].files[lang] \in PreviousRecords

\* C20: the first step of the full re-scrape leaves no entity directory, and no
\* record is written before it; from then on the store holds no record of the
\* earlier run, and when the run has completed every entity directory is one the
\* baseline pass of this run made.
C20_RescrapeStartsFromEmptyStore ==
  /\ [][pc = "v6_clear" => (EntityDirs(store') = {} /\ pc' = "v6_en")]_vars
  /\ [](pc # "v6_clear" => ~HoldsPreviousRecord(store))
  /\ [](pc = "v6_done" => \A n \in EntityDirs(store) : MapHas(slugToData, n))

\* The run has completed and has made again a directory the earlier run had
C20_Witness ==
  /\ pc = "v6_done"
  /\ RecordOf(store, <<"c", "a">>, "en") # <<>>
  /\ RecordOf(store, <<"c", "a">>, "en") # <<Full>>
  /\ RecordOf(store, <<"c", "a">>, "zh-CN") = <<>>
  /\ <<"o", "l", "d">> \notin DOMAIN store

\* ---------------------------------------------------------------------------
\* Claims about the generated index
\* ---------------------------------------------------------------------------

RECURSIVE SumOver(_, _)
SumOver(f, S) ==
  IF S = {} THEN 0
  ELSE LET x == CHOOSE x \in S : TRUE IN f[x] + SumOver(f, S \ {x})

\* A run has ended and has written index.yaml
IndexWritten ==
  /\ pc \in {"v6_done", "v3_done"}
  /\ "--dry-run" \notin args
  /\ IndexName \in DOMAIN store

\* The entity directories whose baseline record gives a category
Categorized(st) == {n \in EntityDirs(st) : categoryOfEntry(st[n]) # ""}

\* C21: in the index a run writes, the total is the sum of the per-category counts
\* and is the number of entities whose baseline record has a category: an entity
\* without baseline record or with an empty category is not counted in the total.
C21_IndexTotalIsSumOfCategories ==
  IndexWritten =>
    LET index == store[IndexName].content
    IN /\ index.total = SumOver(index.categories, DOMAIN index.categories)
       /\ index.total = Cardinality(Categorized(store))


\* ---------------------------------------------------------------------------
\* Functions of the scripts called on their own.  calc holds the argument of
\* the call and what the function returned; the other variables stay at rest.
\* ---------------------------------------------------------------------------

AtRest ==
  /\ store = EmptyMap
  /\ args = {}
  /\ rootFiles = EmptyMap
  /\ clock = 1
  /\ results = emptyResults(0, 0)
  /\ prevResults = emptyResults(0, 0)
  /\ runs = 1
  /\ stdout = NoOutput
  /\ slugToData = <<>>
  /\ sciNameToSlug = EmptyMap
  /\ matched = 0
  /\ unmatched = 0
  /\ idx = 0
  /\ titled = 0
  /\ log = NoLog
  /\ queue = <<>>
  /\ crawl = NoCrawl
  /\ repair = NoRepair

restVars ==
  <<store, args, rootFiles, clock, results, prevResults, runs, stdout, slugToData,
    sciNameToSlug, matched, unmatched, idx, titled, log, queue, crawl, repair>>

SeqsUpTo(S, n) == UNION {[1..k -> S] : k \in 0..n}

\* ---------------------------------------------------------------------------
\* extractSlugFromImageUrl of both scrapers on the file name of an image URL,
\* and on the slug it returned.
\* ---------------------------------------------------------------------------

MaxFileLen == 3

FileChars == {"a", "B", "1", "-", ".", "_"}

FileNames == SeqsUpTo(FileChars, MaxFileLen) \ {<<>>}

slugOfImage(version, file) ==
  IF version = "v6" THEN extractSlugFromImageUrl(Image(file, TRUE))
  ELSE extractSlugFromImageUrlV3(Image(file, TRUE))

\* Two calls on the same image URL
DeriveSlug ==
  /\ pc = "slug_input"
  /\ pc' = "slug_derived"
  /\ calc' = [calc EXCEPT !.slug = slugOfImage(calc.version, calc.file),
                          !.second = slugOfImage(calc.version, calc.file)]
  /\ UNCHANGED restVars

\* A call on an image URL whose file name is the slug the first call returned
DeriveAgain ==
  /\ pc = "slug_derived"
  /\ calc.slug # <<>>
  /\ pc' = "slug_rederived"
  /\ calc' = [calc EXCEPT !.reslug = slugOfImage(calc.version, calc.slug)]
  /\ UNCHANGED restVars

NextSlug == DeriveSlug \/ DeriveAgain

InitSlug ==
  /\ AtRest
  /\ pc = "slug_input"
  /\ \E version \in {"v6", "v3"} :
       \E file \in FileNames :
         calc = [version |-> version, file |-> file, slug |-> <<>>, second |-> <<>>,
                 reslug |-> <<>>]

SpecSlug == InitSlug /\ [][NextSlug]_vars

\* C22: slug derivation is deterministic and idempotent: two derivations from the
\* same image file name give the same slug, and the derivation applied to a
\* derived slug returns that slug unchanged.
C22_SlugDerivationIsIdempotent ==
  /\ pc \in {"slug_derived", "slug_rederived"} => calc.second = calc.slug
  /\ pc = "slug_rederived" => calc.reslug = calc.slug

\* ---------------------------------------------------------------------------
\* generateYaml as the text it returns, and yaml.load on that text.  The text
\* is kept as its parts: the first comment line, the double-quoted scalars of
\* title and scientific_name as written between the key and the line end, and
\* for every section its key and the lines under `key: |`.
\* ---------------------------------------------------------------------------

MaxTitleLen == 2

Quote == "\""
Backslash == "\\"

\* `"${s.replace(/"/g, '\\"')}"`
quoted(s) == <<Quote>> \o ReplaceAll(s, <<Quote>>, <<Backslash, Quote>>) \o <<Quote>>

\* `  ${text.replace(/\n/g, '\n  ')}`
indented(text) == <<" ", " ">> \o ReplaceAll(text, <<LineBreak>>, <<LineBreak, " ", " ">>)

\* sectionOrder of scraper v3
SECTION_ORDER_V3 ==
  <<"history", "introduction", "botanical_source", "traditional_usage", "modern_research",
    "functions", "importance", "food_sources", "precautions", "dosage">>

\* The keys generateYaml writes a section for: those of sectionOrder with a value
\* and, in scraper v3, every other key of data.sections
sectionKeys(version, sections) ==
  IF version = "v6" THEN writtenSections(SECTION_ORDER, sections)
  ELSE writtenSections(SECTION_ORDER_V3, sections)
         \cup {k \in DOMAIN sections : ~InSeq(k, SECTION_ORDER_V3)}

generateYamlText(version, data) ==
  [comment |-> data.title,
   title |-> quoted(data.title),
   scientific_name |-> IF data.scientificName # <<>> THEN quoted(data.scientificName) ELSE <<>>,
   blocks |-> [k \in sectionKeys(version, data.sections) |-> indented(data.sections[k])]]

\* The characters that may follow a backslash in a double-quoted scalar
EscapeChars == {"0", "a", "b", "t", "n", "v", "f", "r", "e", " ", Quote, "/", Backslash,
                "N", "_", "L", "P"}

Unreadable == [ok |-> FALSE, s |-> <<>>]

\* A double-quoted scalar read from behind its opening quote to the line end
RECURSIVE readEscaped(_)
readEscaped(s) ==
  IF s = <<>> THEN Unreadable
  ELSE IF Head(s) = Quote
       THEN IF Tail(s) = <<>> THEN [ok |-> TRUE, s |-> <<>>] ELSE Unreadable
  ELSE IF Head(s) = Backslash
       THEN IF Len(s) < 2 \/ s[2] \notin EscapeChars THEN Unreadable
            ELSE LET rest == readEscaped(SubSeq(s, 3, Len(s)))
                 IN  IF rest.ok
                     THEN [ok |-> TRUE,
                           s |-> <<IF s[2] \in {Quote, Backslash, "/", " "} THEN s[2]
                                   ELSE "#">> \o rest.s]
                     ELSE Unreadable
  ELSE LET rest == readEscaped(Tail(s))
       IN  IF rest.ok THEN [ok |-> TRUE, s |-> <<Head(s)>> \o rest.s] ELSE Unreadable

readDoubleQuoted(s) ==
  IF s = <<>> \/ Head(s) # Quote THEN Unreadable ELSE readEscaped(Tail(s))

RECURSIVE SplitLines(_)
SplitLines(s) ==
  IF \E i \in 1..Len(s) : s[i] = LineBreak
  THEN LET i == CHOOSE i \in 1..Len(s) : s[i] = LineBreak /\ \A j \in 1..(i - 1) : s[j] # LineBreak
       IN  <<SubSeq(s, 1, i - 1)>> \o SplitLines(SubSeq(s, i + 1, Len(s)))
  ELSE <<s>>

RECURSIVE LeadingSpaces(_)
LeadingSpaces(s) == IF s # <<>> /\ Head(s) = " " THEN 1 + LeadingSpaces(Tail(s)) ELSE 0

RECURSIVE JoinLines(_)
JoinLines(ls) == IF ls = <<>> THEN <<>> ELSE Head(ls) \o <<LineBreak>> \o JoinLines(Tail(ls))

\* The literal block scalar under `key: |`: the indentation is that of the first
\* line, a line indented less ends the scalar in the middle of the text, and the
\* value ends with one line break
readLiteral(body) ==
  LET ls == SplitLines(body)
      n == LeadingSpaces(ls[1])
  IN  IF \E i \in 1..Len(ls) : Trim(ls[i]) # <<>> /\ LeadingSpaces(ls[i]) < n
      THEN Unreadable
      ELSE [ok |-> TRUE,
            s |-> JoinLines([i \in 1..Len(ls) |->
                               IF Len(ls[i]) >= n THEN SubSeq(ls[i], n + 1, Len(ls[i]))
                               ELSE <<>>])]

\* yaml.load on the text generateYaml returned, inside the try of parseYaml: the
\* mapping, or null (here Corrupt) when a scalar cannot be read, when the comment
\* runs over its line or when a key is not a plain scalar
yamlLoad(text) ==
  LET title == readDoubleQuoted(text.title)
      sci == IF text.scientific_name = <<>> THEN [ok |-> TRUE, s |-> <<>>]
             ELSE readDoubleQuoted(text.scientific_name)
      blocks == [k \in DOMAIN text.blocks |-> readLiteral(text.blocks[k])]
  IN  IF /\ title.ok
         /\ sci.ok
         /\ \A k \in DOMAIN blocks : blocks[k].ok
         /\ ~Includes(text.comment, <<LineBreak>>)
      THEN Yaml([k \in DOMAIN blocks |-> Str(blocks[k].s)]
                @@ ("title" :> Str(title.s))
                @@ (IF text.scientific_name = <<>> THEN EmptyMap
                    ELSE ("scientific_name" :> Str(sci.s))))
      ELSE Corrupt

\* What parseHerbPage can put into a record: a title as the page gives it (no
\* double quote), a cleaned scientific name, and cleaned section texts
TitleChars == {"a", "'", Backslash}
Titles == SeqsUpTo(TitleChars, MaxTitleLen) \ {<<>>}
ScientificNames == {<<>>, <<"a">>, <<"a", Quote>>, <<Backslash, "a">>}
SectionTexts == {<<"a", ":", " ", "#", "b">>, <<"-", " ", Quote, "a", Backslash>>}
RoundTripKeys == {"history", "modern_usage", "dosage"}
SectionMaps ==
  UNION {[K -> SectionTexts] : K \in SUBSET RoundTripKeys}

\* generateYaml(data, language, slug)
WriteYamlText ==
  /\ pc = "yaml_record"
  /\ pc' = "yaml_written"
  /\ calc' = [calc EXCEPT !.text = generateYamlText(calc.version, calc.data)]
  /\ UNCHANGED restVars

\* parseYaml(filePath) on the file that holds the text
LoadYamlText ==
  /\ pc = "yaml_written"
  /\ pc' = "yaml_loaded"
  /\ calc' = [calc EXCEPT !.loaded = yamlLoad(calc.text)]
  /\ UNCHANGED restVars

NextRoundTrip == WriteYamlText \/ LoadYamlText

InitRoundTrip ==
  /\ AtRest
  /\ pc = "yaml_record"
  /\ \E version \in {"v6", "v3"} :
       \E title \in Titles :
         \E sci \in ScientificNames :
           \E sections \in SectionMaps :
             calc = [version |-> version,
                     data |-> [NoData EXCEPT !.title = title, !.scientificName = sci,
                                             !.sections = sections],
                     text |-> <<>>,
                     loaded |-> Corrupt]

SpecRoundTrip == InitRoundTrip /\ [][NextRoundTrip]_vars

\* White space normalization of a field value
Normalized(s) == Trim(CollapseSpaces(s))

SectionsOf(data) == [k \in DOMAIN data.sections |-> Str(data.sections[k])]

\* C23: the document generateYaml produces, parsed again, has the present-field
\* set of the record's sections and, for each present field, the record's value up
\* to whitespace normalization.
C23_GeneratedYamlRoundTrips ==
  pc = "yaml_loaded" =>
    /\ getPresentContentFields(calc.loaded.data) = getPresentContentFields(SectionsOf(calc.data))
    /\ \A i \in 1..Len(getPresentContentFields(SectionsOf(calc.data))) :
         LET f == getPresentContentFields(SectionsOf(calc.data))[i]
         IN  /\ f \in DOMAIN calc.loaded.data
             /\ Normalized(calc.loaded.data[f].s) = Normalized(calc.data.sections[f])

\* ---------------------------------------------------------------------------
\* The section classifiers on one desc_containter block: extractContentSections
\* of scraper v6 and of scraper v3, and extractContentFromHtml with
\* mapTitleToKey of the repair script.  A block is its cleaned title and its
\* cleaned content; the titles are in Latin script, so of every test only the
\* English keyword is modelled.
\* ---------------------------------------------------------------------------

MaxContentLen == 12

kw_history == <<"h", "i", "s", "t", "o", "r", "y">>
kw_introduction == <<"i", "n", "t", "r", "o", "d", "u", "c", "t", "i", "o", "n">>
kw_intro == <<"i", "n", "t", "r", "o">>
kw_traditional == <<"t", "r", "a", "d", "i", "t", "i", "o", "n", "a", "l">>
kw_modern_research == <<"m", "o", "d", "e", "r", "n", " ", "r", "e", "s", "e", "a", "r", "c", "h">>
kw_modern == <<"m", "o", "d", "e", "r", "n">>
kw_research == <<"r", "e", "s", "e", "a", "r", "c", "h">>
kw_botanical == <<"b", "o", "t", "a", "n", "i", "c", "a", "l">>
kw_source == <<"s", "o", "u", "r", "c", "e">>
kw_plant == <<"p", "l", "a", "n", "t">>
kw_function == <<"f", "u", "n", "c", "t", "i", "o", "n">>
kw_food_source == <<"f", "o", "o", "d", " ", "s", "o", "u", "r", "c", "e">>
kw_importance == <<"i", "m", "p", "o", "r", "t", "a", "n", "c", "e">>
kw_precaution == <<"p", "r", "e", "c", "a", "u", "t", "i", "o", "n">>
kw_warning == <<"w", "a", "r", "n", "i", "n", "g">>
kw_dosage == <<"d", "o", "s", "a", "g", "e">>
kw_dose == <<"d", "o", "s", "e">>

SectionTitles ==
  { <<"H", "i", "s", "t", "o", "r", "y">>,
    <<"I", "n", "t", "r", "o", "d", "u", "c", "t", "i", "o", "n">>,
    <<"I", "n", "t", "r", "o">>,
    <<"T", "r", "a", "d", "i", "t", "i", "o", "n", "a", "l", " ", "U", "s", "a", "g", "e">>,
    <<"M", "o", "d", "e", "r", "n", " ", "R", "e", "s", "e", "a", "r", "c", "h">>,
    <<"M", "o", "d", "e", "r", "n", " ", "U", "s", "a", "g", "e">>,
    <<"R", "e", "s", "e", "a", "r", "c", "h">>,
    <<"B", "o", "t", "a", "n", "i", "c", "a", "l", " ", "S", "o", "u", "r", "c", "e">>,
    <<"P", "l", "a", "n", "t", " ", "S", "o", "u", "r", "c", "e">>,
    <<"S", "o", "u", "r", "c", "e">>,
    <<"F", "o", "o", "d", " ", "S", "o", "u", "r", "c", "e">>,
    <<"F", "u", "n", "c", "t", "i", "o", "n", "s">>,
    <<"I", "m", "p", "o", "r", "t", "a", "n", "c", "e">>,
    <<"P", "r", "e", "c", "a", "u", "t", "i", "o", "n", "s">>,
    <<"D", "o", "s", "a", "g", "e">>,
    <<"N", "o", "t", "e", "s">> }

\* The key of a title no test recognizes: the scrapers use the lower-cased title
TitleKey == "(title)"

\* extractContentSections of scraper v6: the chain of tests on the title
sectionKey(title) ==
  LET titleLower == ToLower(title)
  IN  IF Includes(titleLower, kw_history) THEN "history"
      ELSE IF Includes(titleLower, kw_introduction) THEN "introduction"
      ELSE IF Includes(titleLower, kw_traditional) THEN "traditional_usage"
      ELSE IF Includes(titleLower, kw_modern_research) THEN "modern_research"
      ELSE IF Includes(titleLower, kw_botanical)
              \/ (Includes(titleLower, kw_source) /\ Includes(titleLower, kw_plant))
           THEN "botanical_source"
      ELSE IF Includes(titleLower, kw_function) THEN "functions"
      ELSE IF Includes(titleLower, kw_food_source) THEN "food_sources"
      ELSE IF Includes(titleLower, kw_importance) THEN "importance"
      ELSE IF Includes(titleLower, kw_precaution) \/ Includes(titleLower, kw_warning)
           THEN "precautions"
      ELSE IF Includes(titleLower, kw_dosage) \/ Includes(titleLower, kw_dose) THEN "dosage"
      ELSE IF Includes(titleLower, kw_modern) THEN "modern_usage"
      ELSE TitleKey

\* extractContentSections of scraper v3: the chain of tests on the lower-cased title
sectionKeyV3(title) ==
  LET t == ToLower(title)
  IN  IF Includes(t, kw_history) THEN "history"
      ELSE IF Includes(t, kw_introduction) THEN "introduction"
      ELSE IF Includes(t, kw_traditional) THEN "traditional_usage"
      ELSE IF Includes(t, kw_modern) \/ Includes(t, kw_research) THEN "modern_research"
      ELSE IF Includes(t, kw_botanical) THEN "botanical_source"
      ELSE IF Includes(t, kw_function) THEN "functions"
      ELSE IF Includes(t, kw_food_source) THEN "food_sources"
      ELSE IF Includes(t, kw_importance) THEN "importance"
      ELSE IF Includes(t, kw_precaution) THEN "precautions"
      ELSE IF Includes(t, kw_dosage) THEN "dosage"
      ELSE TitleKey

\* mapTitleToKey of the repair script; null is "null"
mapTitleToKey(title) ==
  LET titleLower == ToLower(title)
  IN  IF Includes(titleLower, kw_history) THEN "history"
      ELSE IF Includes(titleLower, kw_introduction) \/ Includes(titleLower, kw_intro)
           THEN "introduction"
      ELSE IF Includes(titleLower, kw_traditional) THEN "traditional_usage"
      ELSE IF Includes(titleLower, kw_modern) THEN "modern_usage"
      ELSE IF Includes(titleLower, kw_function) THEN "functions"
      ELSE IF Includes(titleLower, kw_source) THEN "botanical_source"
      ELSE IF Includes(titleLower, kw_research) THEN "modern_research"
      ELSE IF Includes(titleLower, kw_importance) THEN "importance"
      ELSE "null"

\* extractContentSections of scraper v6 on a page with one block
extractContentSections(title, content) ==
  IF content # <<>> /\ Len(content) > 10 THEN sectionKey(title) :> content ELSE EmptyMap

\* extractContentSections of scraper v3 on a page with one block and no tab panel
extractContentSectionsV3(title, content) ==
  IF content # <<>> THEN sectionKeyV3(title) :> content ELSE EmptyMap

\* The function of that name in each script
sectionsOfBlock(script, title, content) ==
  IF script = "v6" THEN extractContentSections(title, content)
  ELSE IF script = "v3" THEN extractContentSectionsV3(title, content)
  ELSE extractContentFromHtml(<<Container(mapTitleToKey(title), content)>>, 1)

Scripts == {"v6", "v3", "repair"}

\* One script extracts the sections of the page
ExtractSections ==
  /\ pc = "block_given"
  /\ \E script \in Scripts \ DOMAIN calc.sections :
       calc' = [calc EXCEPT !.sections =
                  (script :> sectionsOfBlock(script, calc.title, calc.content)) @@ @]
  /\ UNCHANGED <<pc, restVars>>

NextSections == ExtractSections

InitSections ==
  /\ AtRest
  /\ pc = "block_given"
  /\ \E title \in SectionTitles :
       \E n \in 0..MaxContentLen :
         calc = [title |-> title, content |-> [i \in 1..n |-> "x"], sections |-> EmptyMap]

SpecSections == InitSections /\ [][NextSections]_vars

\* The title is one the script has a key for
Recognized(script, title) ==
  IF script = "v6" THEN sectionKey(title) # TitleKey
  ELSE IF script = "v3" THEN sectionKeyV3(title) # TitleKey
  ELSE mapTitleToKey(title) # "null"

\* C24: a content block under a recognized title is stored if and only if its
\* cleaned text has at least 10 characters, in the scrapers and in the repair flow.
C24_BlockKeptIffTenCharacters ==
  pc = "block_given" =>
    \A script \in DOMAIN calc.sections :
      Recognized(script, calc.title) =>
        (calc.sections[script] # EmptyMap <=> Len(calc.content) >= 10)

\* C26: for every title that both mapTitleToKey of the repair script and
\* extractContentSections of the scraper recognize, the two give the same key.
C26_RepairClassifiesLikeScraper ==
  pc = "block_given" /\ {"v6", "repair"} \subseteq DOMAIN calc.sections =>
    (Recognized("v6", calc.title) /\ Recognized("repair", calc.title) =>
       /\ sectionKey(calc.title) = mapTitleToKey(calc.title)
       /\ DOMAIN calc.sections["v6"] = DOMAIN calc.sections["repair"])

\* ---------------------------------------------------------------------------
\* Baseline pass of scraper v6: pages without a title or without an image
\* ---------------------------------------------------------------------------

\* A step of the loop of scrapeEnglish over the item URLs
EnglishItemStep == pc = "v6_en" /\ idx' = idx + 1 /\ log'.lang = "en"

\* The page of the step has no title, or no image URL a slug can be derived from
NoTitleOrNoImageSlug ==
  log'.data.title = <<>> \/ extractSlugFromImageUrl(log'.data.imageUrl) = NoSlug

\* C25: in a baseline pass a fetched page without a title, or without an image URL
\* from which a slug can be derived, is skipped: nothing is written, no entity
\* directory is created, and the crawl continues with the next page.
C25_PageWithoutTitleOrImageIsSkipped ==
  [][EnglishItemStep /\ NoTitleOrNoImageSlug => store' = store /\ pc' = "v6_en"]_vars

\* ---------------------------------------------------------------------------
\* Repair script and verifier on the same content store
\* ---------------------------------------------------------------------------

\* The missing_field issues validateHerbDirectory reports for an entry
VerifierTriples(st, slug) ==
  LET issues == validateHerbDirectory(st, slug).schemaInconsistencies
  IN  {<<slug, issues[i].language, issues[i].field>> :
         i \in {j \in 1..Len(issues) : issues[j].type = "missing_field"}}

\* The missing fields fixHerbEntry found for the entry of its last call
RepairTriples(r) == {<<r.slug, f.language, f.field>> : f \in r.fixes}

\* C27: for an entry whose baseline record parses, the (entity, language, field)
\* triples the repair flow computes are the missing_field issues the verifier
\* reports on the same content store.
C27_RepairFindsVerifierTriples ==
  [][RepairStep /\ loaded(store, Head(queue), BASELINE_LANGUAGE)
       => RepairTriples(repair') = VerifierTriples(store, Head(queue))]_vars

C27_Witness ==
  /\ pc \in {"fix_loop", "fix_done"}
  /\ repair.slug # NoSlug
  /\ Cardinality(repair.fixes) >= 2

\* ---------------------------------------------------------------------------
\* Verifier: entries with hasIssues
\* ---------------------------------------------------------------------------

\* C28: every entity for which the verifier sets hasIssues (a missing language
\* file, a language file that fails to parse, or a missing_field issue) is counted
\* as incomplete and listed in problematicHerbs; an entity with a present but
\* unparseable language file is never counted as complete.
C28_EntityWithIssuesIsIncomplete ==
  Verified =>
    /\ \A slug \in Herbs :
         /\ ValidationOf(slug).hasIssues => IsProblematic(slug)
         /\ (\E lang \in Langs : FileExists(slug, lang) /\ ~FileParses(slug, lang))
              => IsProblematic(slug)
    /\ results.summary.incompleteHerbs >=
         Cardinality({slug \in Herbs : ValidationOf(slug).hasIssues})

\* ---------------------------------------------------------------------------
\* Repair script: the counters of the summary
\* ---------------------------------------------------------------------------

\* C29: an entity is counted as 'Fixed' only if a missing field was written back to
\* one of its files in the run (not when the re-fetch failed, nothing was
\* re-extracted, or the run is --dry-run), and an entity with a missing language
\* file is not counted as 'Schema complete'.
C29_FixedMeansWrittenBack ==
  [][RepairStep =>
       LET slug == Head(queue)
       IN /\ repair'.fixed > repair.fixed => \E lang \in Langs : Rewritten(slug, lang)
          /\ (\E lang \in Langs : ~existsSync(store, slug, lang))
               => repair'.unchanged = repair.unchanged]_vars

\* ---------------------------------------------------------------------------
\* scrapeChinese: two pages of a pass matched to the same entity
\* ---------------------------------------------------------------------------

\* C30: within one pass of scrapeChinese no two pages are persisted to the same
\* baseline slug: a record written for (slug, language) in the pass is never
\* overwritten by a later page of the pass.  (The run empties the content store
\* before the baseline pass, so a record of the pass's language is one the pass
\* wrote.)
C30_NoTwoPagesPersistedToOneSlug ==
  [][ChineseItemStep /\ log'.kind = "matched" /\ store' # store
       => RecordOf(store, log'.slug, Head(queue)) = <<>>]_vars

=============================================================================
